---- MODULE Spec2Model ----
(***************************************************************************)
(* Model of the text-to-circuit compiler of Quantum_Programming_IDE:       *)
(* backend/compiler/simulator.py (register table, loop/conditional         *)
(* expansion, statement resolution, simulate, legacy fallback),            *)
(* backend/compiler/parser.py and backend/compiler/executor.py.            *)
(*                                                                         *)
(* Source text is a string; the regular expressions of the source are      *)
(* translated one by one into matchers over character positions.           *)
(***************************************************************************)
EXTENDS Integers, Sequences, FiniteSets, TLC

(***************************************************************************)
(* Characters and character classes of Python's re module (ASCII part).    *)
(***************************************************************************)
Ch(t, i) == IF i >= 1 /\ i <= Len(t) THEN SubSeq(t, i, i) ELSE ""

DigitChars == {"0", "1", "2", "3", "4", "5", "6", "7", "8", "9"}

LetterChars ==
    {"a", "b", "c", "d", "e", "f", "g", "h", "i", "j", "k", "l", "m",
     "n", "o", "p", "q", "r", "s", "t", "u", "v", "w", "x", "y", "z",
     "A", "B", "C", "D", "E", "F", "G", "H", "I", "J", "K", "L", "M",
     "N", "O", "P", "Q", "R", "S", "T", "U", "V", "W", "X", "Y", "Z", "_"}

\* \w
WordChars == LetterChars \cup DigitChars

\* \s
SpaceChars == {" ", "\n", "\t", "\r"}

\* The text from position i to the end: text[i-1:] in Python's 0-based terms.
From(t, i) == IF i > Len(t) THEN "" ELSE SubSeq(t, i, Len(t))

\* text.startswith(lit, at position p): a literal of a pattern.
Lit(t, p, lit) == /\ p >= 1
                  /\ p + Len(lit) - 1 <= Len(t)
                  /\ SubSeq(t, p, p + Len(lit) - 1) = lit

\* A greedy run C*: the first position >= p whose character is not in C.
Skip(t, p, C) ==
    IF p > Len(t) THEN p
    ELSE CHOOSE q \in p..(Len(t) + 1) :
            /\ q > Len(t) \/ Ch(t, q) \notin C
            /\ \A r \in p..(q - 1) : Ch(t, r) \in C

\* \b before a word character at p: the start, or a non-word character before.
WordStart(t, p) == p = 1 \/ Ch(t, p - 1) \notin WordChars

\* \b after a word character at p - 1: the end, or a non-word character at p.
WordEnd(t, p) == p > Len(t) \/ Ch(t, p) \notin WordChars

\* 'needle in text'
Contains(t, lit) == \E p \in 1..Len(t) : Lit(t, p, lit)

\* str.strip()
Strip(t) ==
    LET a == Skip(t, 1, SpaceChars)
        b == IF a > Len(t) THEN 0
             ELSE CHOOSE q \in a..Len(t) :
                    /\ Ch(t, q) \notin SpaceChars
                    /\ \A r \in (q + 1)..Len(t) : Ch(t, r) \in SpaceChars
    IN  IF a > b THEN "" ELSE SubSeq(t, a, b)

\* The first position >= p that holds a character of C (Len + 1: none).
SkipTo(t, p, C) ==
    IF p > Len(t) THEN p
    ELSE CHOOSE q \in p..(Len(t) + 1) :
            /\ q > Len(t) \/ Ch(t, q) \in C
            /\ \A r \in p..(q - 1) : Ch(t, r) \notin C

\* The least element of a non-empty set of positions.
Least(S) == CHOOSE q \in S : \A r \in S : q <= r

\* text[a-1:b-1] in Python's terms: positions a to b - 1.
Slice(t, a, b) == IF a > b - 1 THEN "" ELSE SubSeq(t, a, b - 1)

\* str.split(sep) for a one-character separator: the pieces from position a on.
RECURSIVE SplitFrom(_, _, _)
SplitFrom(t, sep, a) ==
    LET p == SkipTo(t, a, {sep})
    IN  IF p > Len(t) THEN << From(t, a) >>
        ELSE << Slice(t, a, p) >> \o SplitFrom(t, sep, p + 1)

Split(t, sep) == SplitFrom(t, sep, 1)

\* sep.join(parts)
RECURSIVE Join(_, _)
Join(parts, sep) ==
    IF Len(parts) = 0 THEN ""
    ELSE IF Len(parts) = 1 THEN parts[1]
    ELSE parts[1] \o sep \o Join(Tail(parts), sep)

(***************************************************************************)
(* int(digits) and str(n).                                                 *)
(***************************************************************************)
DigitVal(c) ==
    CASE c = "0" -> 0 [] c = "1" -> 1 [] c = "2" -> 2 [] c = "3" -> 3
      [] c = "4" -> 4 [] c = "5" -> 5 [] c = "6" -> 6 [] c = "7" -> 7
      [] c = "8" -> 8 [] c = "9" -> 9

RECURSIVE IntOfAcc(_, _, _)
IntOfAcc(t, p, acc) ==
    IF p > Len(t) THEN acc ELSE IntOfAcc(t, p + 1, 10 * acc + DigitVal(Ch(t, p)))

\* int(s) for a string of decimal digits
IntOf(t) == IntOfAcc(t, 1, 0)

DigitStr(d) == SubSeq("0123456789", d + 1, d + 1)

RECURSIVE StrOf(_)
\* str(n) for n >= 0
StrOf(n) == IF n < 10 THEN DigitStr(n) ELSE StrOf(n \div 10) \o DigitStr(n % 10)

(***************************************************************************)
(* Register declarations: \bqubit\[(\d+)\]\s+(\w+)\s*; and                 *)
(* \bbit\[(\d+)\]\s+(\w+)\s*; (simulator.py 172, 182).                     *)
(***************************************************************************)
NoDecl == [ok |-> FALSE, end |-> 0, size |-> "", name |-> ""]

\* The declaration pattern for keyword kw matched at position p; wb says
\* whether the pattern starts with \b.
DeclAt(t, p, kw, wb) ==
    LET d1 == p + Len(kw) + 1
        d2 == Skip(t, d1, DigitChars)
        s1 == d2 + 1
        s2 == Skip(t, s1, SpaceChars)
        w2 == Skip(t, s2, WordChars)
        e  == Skip(t, w2, SpaceChars)
    IN  IF /\ (wb => WordStart(t, p))
           /\ Lit(t, p, kw \o "[")
           /\ d2 > d1
           /\ Ch(t, d2) = "]"
           /\ s2 > s1
           /\ w2 > s2
           /\ Ch(t, e) = ";"
        THEN [ok |-> TRUE, end |-> e + 1,
              size |-> Slice(t, d1, d2), name |-> Slice(t, s2, w2)]
        ELSE NoDecl

\* re.finditer: the non-overlapping matches from position p on, left to right.
RECURSIVE DeclMatches(_, _, _, _)
DeclMatches(t, p, kw, wb) ==
    LET S == {q \in p..Len(t) : DeclAt(t, q, kw, wb).ok}
    IN  IF S = {} THEN << >>
        ELSE LET m == DeclAt(t, Least(S), kw, wb)
             IN  << m >> \o DeclMatches(t, m.end, kw, wb)

EmptyTable == [n \in {} |-> << 0, 0 >>]

\* An assignment that leaves the entry of a name that is already in the
\* table as it is.
RECURSIVE AssignOffsetsKeepFirst(_, _, _, _)
AssignOffsetsKeepFirst(ms, k, table, total) ==
    IF k > Len(ms) THEN [table |-> table, total |-> total]
    ELSE LET size == IntOf(ms[k].size)
         IN  AssignOffsetsKeepFirst(ms, k + 1,
                                    table @@ (ms[k].name :> << total, size >>),
                                    total + size)

\* for match in matches: registers[name] = (total, size); total += size
RECURSIVE AssignOffsets(_, _, _, _)
AssignOffsets(ms, k, table, total) ==
    IF k > Len(ms) THEN [table |-> table, total |-> total]
    ELSE LET size == IntOf(ms[k].size)
         IN  AssignOffsets(ms, k + 1,
                           (ms[k].name :> << total, size >>) @@ table,
                           total + size)

\* simulator.py 172-178
QubitTable(qasm) == AssignOffsets(DeclMatches(qasm, 1, "qubit", TRUE), 1, EmptyTable, 0)

\* The bit table of a pattern that lacks its \b, which finds "bit[" inside
\* "qubit[" as well.
BitTableUnanchored(qasm) == AssignOffsets(DeclMatches(qasm, 1, "bit", FALSE), 1, EmptyTable, 0)

\* simulator.py 182-188
BitTable(qasm) == AssignOffsets(DeclMatches(qasm, 1, "bit", TRUE), 1, EmptyTable, 0)

(***************************************************************************)
(* Structured control expansion (simulator.py 216-295).                    *)
(***************************************************************************)
max_iterations == 10

\* The while loop of find_matching_brace from position pos with the depth
\* so far; the characters that are no brace change nothing and are passed
\* over at once.
RECURSIVE BraceScan(_, _, _)
BraceScan(text, pos, depth) ==
    LET b == SkipTo(text, pos, {"{", "}"})
    IN  IF b > Len(text) THEN 0
        ELSE IF Ch(text, b) = "{" THEN BraceScan(text, b + 1, depth + 1)
        ELSE IF depth - 1 = 0 THEN b
        ELSE BraceScan(text, b + 1, depth - 1)

\* A search that stops at the first closing brace, whatever opened before it.
find_first_closing_brace(text, start_pos) ==
    LET S == {q \in start_pos..Len(text) : Ch(text, q) = "}"}
    IN  IF S = {} THEN 0 ELSE Least(S)

\* find_matching_brace(text, start_pos), 1-based; 0 stands for -1.
find_matching_brace(text, start_pos) == BraceScan(text, start_pos, 0)

NoLoop == [ok |-> FALSE, start |-> 0, brace |-> 0, var |-> "", lo |-> "", hi |-> ""]

\* for\s+int\s+(\w+)\s+in\s+\[(\d+):(\d+)\]\s*\{  matched at position p
LoopAt(t, p) ==
    LET a2 == Skip(t, p + 3, SpaceChars)
        b2 == Skip(t, a2 + 3, SpaceChars)
        w2 == Skip(t, b2, WordChars)
        c2 == Skip(t, w2, SpaceChars)
        d2 == Skip(t, c2 + 2, SpaceChars)
        n2 == Skip(t, d2 + 1, DigitChars)
        m2 == Skip(t, n2 + 1, DigitChars)
        e  == Skip(t, m2 + 1, SpaceChars)
    IN  IF /\ Lit(t, p, "for")
           /\ a2 > p + 3
           /\ Lit(t, a2, "int")
           /\ b2 > a2 + 3
           /\ w2 > b2
           /\ c2 > w2
           /\ Lit(t, c2, "in")
           /\ d2 > c2 + 2
           /\ Ch(t, d2) = "["
           /\ n2 > d2 + 1
           /\ Ch(t, n2) = ":"
           /\ m2 > n2 + 1
           /\ Ch(t, m2) = "]"
           /\ Ch(t, e) = "{"
        THEN [ok |-> TRUE, start |-> p, brace |-> e,
              var |-> Slice(t, b2, w2),
              lo |-> Slice(t, d2 + 1, n2), hi |-> Slice(t, n2 + 1, m2)]
        ELSE NoLoop

\* re.search: the leftmost match
LoopSearch(t) ==
    LET S == {q \in 1..Len(t) : LoopAt(t, q).ok}
    IN  IF S = {} THEN NoLoop ELSE LoopAt(t, Least(S))

\* A substitution without the two \b: every occurrence of var is replaced,
\* inside longer words too.
RECURSIVE SubAnywhere(_, _, _, _)
SubAnywhere(body, var, repl, a) ==
    LET S == {q \in a..Len(body) : Lit(body, q, var)}
    IN  IF S = {} THEN From(body, a)
        ELSE LET p == Least(S)
             IN  Slice(body, a, p) \o repl \o SubAnywhere(body, var, repl, p + Len(var))

\* re.sub(r'\b' + var + r'\b', repl, body) from position a on: each match,
\* left to right, replaced.
RECURSIVE SubWord(_, _, _, _)
SubWord(body, var, repl, a) ==
    LET S == {q \in a..Len(body) :
                Lit(body, q, var) /\ WordStart(body, q) /\ WordEnd(body, q + Len(var))}
    IN  IF S = {} THEN From(body, a)
        ELSE LET p == Least(S)
             IN  Slice(body, a, p) \o repl \o SubWord(body, var, repl, p + Len(var))

\* [re.sub(var, str(i), loop_body) for i in range(start, end)]
RECURSIVE ExpandedLines(_, _, _, _)
ExpandedLines(body, var, i, end) ==
    IF i >= end THEN << >>
    ELSE << SubWord(body, var, StrOf(i), 1) >> \o ExpandedLines(body, var, i + 1, end)

\* The loop found by the pass, with its closing brace (0: none).
LoopMatch(code) ==
    LET m == LoopSearch(code)
    IN  [m |-> m, brace_end |-> IF m.ok THEN find_matching_brace(code, m.brace) ELSE 0]

\* One pass of the loop expansion on a text whose leftmost loop is lm.
ExpandLoop(code, lm) ==
    LET loop_body == Slice(code, lm.m.brace + 1, lm.brace_end)
    IN  Slice(code, 1, lm.m.start)
        \o Join(ExpandedLines(loop_body, lm.m.var, IntOf(lm.m.lo), IntOf(lm.m.hi)), "\n")
        \o From(code, lm.brace_end + 1)

ConditionalMarker == "// Conditional statement skipped (requires runtime classical values)\n"

NoIf == [ok |-> FALSE, start |-> 0, brace |-> 0]

\* if\s*\([^)]+\)\s*\{  matched at position p
IfAt(t, p) ==
    LET a  == Skip(t, p + 2, SpaceChars)
        c2 == SkipTo(t, a + 1, {")"})
        e  == Skip(t, c2 + 1, SpaceChars)
    IN  IF /\ Lit(t, p, "if")
           /\ Ch(t, a) = "("
           /\ c2 > a + 1
           /\ Ch(t, c2) = ")"
           /\ Ch(t, e) = "{"
        THEN [ok |-> TRUE, start |-> p, brace |-> e]
        ELSE NoIf

IfSearch(t) ==
    LET S == {q \in 1..Len(t) : IfAt(t, q).ok}
    IN  IF S = {} THEN NoIf ELSE IfAt(t, Least(S))

\* else\s*\{ matched at the start of after_if; the value is match.end(), 0
\* when there is no match.
ElseEnd(after_if) ==
    LET e == Skip(after_if, 5, SpaceChars)
    IN  IF Lit(after_if, 1, "else") /\ Ch(after_if, e) = "{" THEN e ELSE 0

\* What one pass of the conditional removal finds: the if, its closing
\* brace, whether an else follows and the closing brace of the else
\* (simulator.py 268-283).  else_brace_start is brace_end + 1 +
\* else_match.end() - 1 in 0-based positions, an offset into the stripped
\* text added to a position of the unstripped one.
IfMatch(code) ==
    LET m == IfSearch(code)
        brace_end == IF m.ok THEN find_matching_brace(code, m.brace) ELSE 0
        else_end == IF brace_end # 0 THEN ElseEnd(Strip(From(code, brace_end + 1))) ELSE 0
        else_brace_end == IF else_end # 0
                          THEN find_matching_brace(code, brace_end + else_end)
                          ELSE 0
    IN  [m |-> m, brace_end |-> brace_end, has_else |-> else_end # 0,
         else_brace_end |-> else_brace_end]

\* The pass rewrites the text unless a brace is unmatched.
IfRemovable(im) == im.m.ok /\ im.brace_end # 0 /\ (im.has_else => im.else_brace_end # 0)

RemoveConditional(code, im) ==
    Slice(code, 1, im.m.start)
    \o ConditionalMarker
    \o From(code, (IF im.has_else THEN im.else_brace_end ELSE im.brace_end) + 1)

\* The two while loops as functions of the text: what the expander returns.
RECURSIVE LoopPhase(_, _)
LoopPhase(code, iteration) ==
    LET lm == LoopMatch(code)
    IN  IF iteration < max_iterations /\ lm.m.ok /\ lm.brace_end # 0
        THEN LoopPhase(ExpandLoop(code, lm), iteration + 1)
        ELSE code

RECURSIVE ConditionalPhase(_, _)
ConditionalPhase(code, iteration) ==
    LET im == IfMatch(code)
    IN  IF iteration < max_iterations /\ IfRemovable(im)
        THEN ConditionalPhase(RemoveConditional(code, im), iteration + 1)
        ELSE code

Expand(code) == ConditionalPhase(LoopPhase(code, 0), 0)

(***************************************************************************)
(* Statement resolution (simulator.py 297-405).                            *)
(***************************************************************************)
GateOp(name, qubits) == [name |-> name, qubits |-> qubits, clbits |-> << >>]

\* circuit.measure(q, c)
MeasureOp(q, c) == [name |-> "measure", qubits |-> << q >>, clbits |-> << c >>]

\* gate_map: the gate names and the number of qubits each method takes.
gate_map ==
    [g \in {"h", "x", "y", "z", "s", "sdg", "t", "tdg"} |-> 1]
    @@ [g \in {"cx", "cy", "cz", "ch", "swap"} |-> 2]
    @@ [g \in {"ccx", "cswap"} |-> 3]

\* The methods of gate_map that take optional arguments after the qubits
\* (label, ctrl_state): what a call with more positional arguments than
\* qubits does is for the library to say.
OptionalArgGates == {"x", "cx", "cy", "cz", "ch", "ccx", "cswap"}

NoMeasure ==
    [ok |-> FALSE, end |-> 0, qreg |-> "", q_index |-> "", creg |-> "", c_index |-> ""]

\* measure\s+(\w+)\s*->\s*(\w+)\s*;  matched at position p
MeasureAt(line, p) ==
    LET a  == Skip(line, p + 7, SpaceChars)
        w  == Skip(line, a, WordChars)
        b  == Skip(line, w, SpaceChars)
        c  == Skip(line, b + 2, SpaceChars)
        w2 == Skip(line, c, WordChars)
        e  == Skip(line, w2, SpaceChars)
    IN  IF /\ Lit(line, p, "measure")
           /\ a > p + 7
           /\ w > a
           /\ Lit(line, b, "->")
           /\ w2 > c
           /\ Ch(line, e) = ";"
        THEN [ok |-> TRUE, end |-> e + 1, qreg |-> Slice(line, a, w), q_index |-> "",
              creg |-> Slice(line, c, w2), c_index |-> ""]
        ELSE NoMeasure

\* re.match(r'measure\s+(\w+)\s*->\s*(\w+)\s*;', line)
MeasureMatch(line) == MeasureAt(line, 1)

\* re.match(r'measure\s+(\w+)\[(\d+)\]\s*->\s*(\w+)\[(\d+)\]\s*;', line)
MeasureIndividualMatch(line) ==
    LET a  == Skip(line, 8, SpaceChars)
        w  == Skip(line, a, WordChars)
        d  == Skip(line, w + 1, DigitChars)
        b  == Skip(line, d + 1, SpaceChars)
        c  == Skip(line, b + 2, SpaceChars)
        w2 == Skip(line, c, WordChars)
        d2 == Skip(line, w2 + 1, DigitChars)
        e  == Skip(line, d2 + 1, SpaceChars)
    IN  IF /\ Lit(line, 1, "measure")
           /\ a > 8
           /\ w > a
           /\ Ch(line, w) = "["
           /\ d > w + 1
           /\ Ch(line, d) = "]"
           /\ Lit(line, b, "->")
           /\ w2 > c
           /\ Ch(line, w2) = "["
           /\ d2 > w2 + 1
           /\ Ch(line, d2) = "]"
           /\ Ch(line, e) = ";"
        THEN [ok |-> TRUE, end |-> e + 1,
              qreg |-> Slice(line, a, w), q_index |-> Slice(line, w + 1, d),
              creg |-> Slice(line, c, w2), c_index |-> Slice(line, w2 + 1, d2)]
        ELSE NoMeasure

NoGate == [ok |-> FALSE, gate_name |-> "", args_str |-> ""]

\* re.match(r'(\w+)\s+(.+?)\s*;', line).  \w+ and \s+ are greedy, .+? takes
\* at least one character and as few as possible: with s the position after
\* the spaces and f the first ';' after s, group 2 runs from s to the last
\* non-space before f.  When the only ';' stands at s itself, \s+ gives back
\* one of at least two spaces and group 2 is that space.
GateMatch(line) ==
    LET w == Skip(line, 1, WordChars)
        s == Skip(line, w, SpaceChars)
        f == SkipTo(line, s + 1, {";"})
        p == CHOOSE q \in (s + 1)..f :
                /\ \A r \in q..(f - 1) : Ch(line, r) \in SpaceChars
                /\ \A r \in (s + 1)..(q - 1) :
                      \E u \in r..(f - 1) : Ch(line, u) \notin SpaceChars
    IN  IF w > 1 /\ s > w /\ s <= Len(line) /\ f <= Len(line)
        THEN [ok |-> TRUE, gate_name |-> Slice(line, 1, w), args_str |-> Slice(line, s, p)]
        ELSE IF w > 1 /\ s > w + 1 /\ Ch(line, s) = ";"
        THEN [ok |-> TRUE, gate_name |-> Slice(line, 1, w), args_str |-> Slice(line, s - 1, s)]
        ELSE NoGate

NoArg == [ok |-> FALSE, reg_name |-> "", index |-> ""]

\* re.match(r'(\w+)\[(\d+)\]', arg)
ArgMatch(arg) ==
    LET w == Skip(arg, 1, WordChars)
        d == Skip(arg, w + 1, DigitChars)
    IN  IF w > 1 /\ Ch(arg, w) = "[" /\ d > w + 1 /\ Ch(arg, d) = "]"
        THEN [ok |-> TRUE, reg_name |-> Slice(arg, 1, w), index |-> Slice(arg, w + 1, d)]
        ELSE NoArg

Raise(code) == [kind |-> "raise", code |-> code, ops |-> << >>]

Emit(ops) == [kind |-> "emit", code |-> "", ops |-> ops]

Continue == [kind |-> "continue", code |-> "", ops |-> << >>]

\* for i in range(q_size): circuit.measure(q_start + i, c_start + i)
\* A pairing that counts the bits from 0 whatever the register's offset.
MeasureAllFromZero(q_start, c_start, q_size) ==
    [i \in 1..q_size |-> MeasureOp(q_start + (i - 1), i - 1)]

\* for i in range(q_size): circuit.measure(q_start + i, c_start + i)
MeasureAll(q_start, c_start, q_size) ==
    [i \in 1..q_size |-> MeasureOp(q_start + (i - 1), c_start + (i - 1))]

\* A whole-register rule that measures the common prefix of two registers
\* of different sizes.
ResolveMeasureCommonPrefix(m, qregs, bregs) ==
    IF m.qreg \in DOMAIN qregs /\ m.creg \in DOMAIN bregs
    THEN LET q == qregs[m.qreg]
             c == bregs[m.creg]
         IN  Emit(MeasureAll(q[1], c[1], IF q[2] < c[2] THEN q[2] ELSE c[2]))
    ELSE Raise("Unknown registers in measurement")

\* simulator.py 320-337
ResolveMeasure(m, qregs, bregs) ==
    IF m.qreg \in DOMAIN qregs /\ m.creg \in DOMAIN bregs
    THEN LET q == qregs[m.qreg]
             c == bregs[m.creg]
         IN  IF q[2] # c[2] THEN Raise("Register size mismatch")
             ELSE Emit(MeasureAll(q[1], c[1], q[2]))
    ELSE Raise("Unknown registers in measurement")

\* A single-index rule that takes any index as it is written.
ResolveMeasureIndividualUnchecked(m, qregs, bregs) ==
    IF m.qreg \in DOMAIN qregs /\ m.creg \in DOMAIN bregs
    THEN Emit(<< MeasureOp(qregs[m.qreg][1] + IntOf(m.q_index),
                           bregs[m.creg][1] + IntOf(m.c_index)) >>)
    ELSE Raise("Unknown registers in measurement")

\* simulator.py 340-360
ResolveMeasureIndividual(m, qregs, bregs) ==
    IF m.qreg \in DOMAIN qregs /\ m.creg \in DOMAIN bregs
    THEN LET q == qregs[m.qreg]
             c == bregs[m.creg]
         IN  IF IntOf(m.q_index) >= q[2] THEN Raise("Qubit index out of range")
             ELSE IF IntOf(m.c_index) >= c[2] THEN Raise("Bit index out of range")
             ELSE Emit(<< MeasureOp(q[1] + IntOf(m.q_index), c[1] + IntOf(m.c_index)) >>)
    ELSE Raise("Unknown registers in measurement")

\* for arg in args (simulator.py 377-393): the indices resolved so far are
\* in qubit_indices; the first argument that fails raises.
RECURSIVE ResolveArgs(_, _, _, _)
ResolveArgs(args, k, qregs, qubit_indices) ==
    IF k > Len(args) THEN Emit(qubit_indices)
    ELSE LET reg_match == ArgMatch(args[k])
         IN  IF ~reg_match.ok THEN Raise("Unable to parse gate argument")
             ELSE IF reg_match.reg_name \notin DOMAIN qregs THEN Raise("Unknown register")
             ELSE IF IntOf(reg_match.index) >= qregs[reg_match.reg_name][2]
                  THEN Raise("Qubit index out of range")
             ELSE ResolveArgs(args, k + 1, qregs,
                      Append(qubit_indices,
                             qregs[reg_match.reg_name][1] + IntOf(reg_match.index)))

\* gate_func(*qubit_indices) (simulator.py 396-403).  The library refuses
\* too few arguments and a qubit named twice; what it does with surplus
\* positional arguments of a method that has optional ones is its own
\* answer: kind "library" with the operation it would add.
ApplyGate(gate_name, qubit_indices) ==
    IF gate_name \notin DOMAIN gate_map THEN Raise("Unsupported gate")
    ELSE LET n == gate_map[gate_name]
             qs == IF Len(qubit_indices) >= n THEN SubSeq(qubit_indices, 1, n) ELSE << >>
         IN  IF \/ Len(qubit_indices) < n
                \/ \E i, j \in 1..n : i < j /\ qs[i] = qs[j]
                \/ Len(qubit_indices) > n /\ gate_name \notin OptionalArgGates
             THEN Raise("Error applying gate")
             ELSE IF Len(qubit_indices) > n
             THEN [kind |-> "library", code |-> "", ops |-> << GateOp(gate_name, qs) >>]
             ELSE Emit(<< GateOp(gate_name, qs) >>)

\* The library's answer to a call that is its to decide: the operation is
\* added, or the call raises (simulator.py 398-401).
Settle(r, lenient) ==
    IF r.kind # "library" THEN r
    ELSE IF lenient THEN Emit(r.ops)
    ELSE Raise("Error applying gate")

StripAll(parts) == [i \in 1..Len(parts) |-> Strip(parts[i])]

\* simulator.py 364-403
ResolveGate(g, qregs) ==
    IF g.gate_name = "measure" THEN Continue
    ELSE LET r == ResolveArgs(StripAll(Split(g.args_str, ",")), 1, qregs, << >>)
         IN  IF r.kind = "raise" THEN r ELSE ApplyGate(g.gate_name, r.ops)

\* A skip of the lines that begin with a declaration only.
SkippedWhenDeclaration(line) ==
    \/ line = ""
    \/ Lit(line, 1, "//")
    \/ Lit(line, 1, "OPENQASM")
    \/ Lit(line, 1, "include")
    \/ Lit(line, 1, "qubit[")
    \/ Lit(line, 1, "bit[")
    \/ Contains(line, "Conditional statements")

\* The lines the loop passes over (simulator.py 302-311).
Skipped(line) ==
    \/ line = ""
    \/ Lit(line, 1, "//")
    \/ Lit(line, 1, "OPENQASM")
    \/ Lit(line, 1, "include")
    \/ Contains(line, "qubit[")
    \/ Contains(line, "bit[")
    \/ Contains(line, "Conditional statements")

\* The body of "for line in lines" for one line.
ResolveLine(raw, qregs, bregs) ==
    LET line == Strip(raw)
    IN  IF Skipped(line) THEN Continue
        ELSE IF MeasureMatch(line).ok THEN ResolveMeasure(MeasureMatch(line), qregs, bregs)
        ELSE IF MeasureIndividualMatch(line).ok
             THEN ResolveMeasureIndividual(MeasureIndividualMatch(line), qregs, bregs)
        ELSE IF GateMatch(line).ok THEN ResolveGate(GateMatch(line), qregs)
        ELSE Continue

\* build_circuit_from_qasm3 as a function of the text, for a library that
\* answers lenient throughout: the operations, or the first error.
RECURSIVE ResolveLines(_, _, _, _, _, _)
ResolveLines(lines, k, qregs, bregs, lenient, data) ==
    IF k > Len(lines) THEN Emit(data)
    ELSE LET r == Settle(ResolveLine(lines[k], qregs, bregs), lenient)
         IN  IF r.kind = "raise" THEN r
             ELSE ResolveLines(lines, k + 1, qregs, bregs, lenient, data \o r.ops)

(***************************************************************************)
(* The legacy-format converter: convert_qasm3_to_qasm2 (simulator.py       *)
(* 12-97).                                                                 *)
(***************************************************************************)
UpperCase == "ABCDEFGHIJKLMNOPQRSTUVWXYZ"

LowerCase == "abcdefghijklmnopqrstuvwxyz"

\* c.lower()
LowerCh(c) ==
    IF \E i \in 1..26 : Ch(UpperCase, i) = c
    THEN Ch(LowerCase, CHOOSE i \in 1..26 : Ch(UpperCase, i) = c)
    ELSE c

\* A literal under re.IGNORECASE; lit is in lower case.
LitCI(t, p, lit) ==
    /\ p >= 1
    /\ p + Len(lit) - 1 <= Len(t)
    /\ \A i \in 1..Len(lit) : LowerCh(Ch(t, p + i - 1)) = Ch(lit, i)

\* register_sizes (simulator.py 33-46): the qubit pattern has no \b here.
RECURSIVE AssignSizes(_, _, _)
AssignSizes(ms, k, sizes) ==
    IF k > Len(ms) THEN sizes
    ELSE AssignSizes(ms, k + 1, (ms[k].name :> IntOf(ms[k].size)) @@ sizes)

register_sizes(code) ==
    AssignSizes(DeclMatches(code, 1, "bit", TRUE), 1,
        AssignSizes(DeclMatches(code, 1, "qubit", FALSE), 1, [n \in {} |-> 0]))

\* include\s+["\']stdgates\.inc["\']\s*;  matched at p: the end, or 0
IncludeAt(t, p) ==
    LET a == Skip(t, p + 7, SpaceChars)
        e == Skip(t, a + 14, SpaceChars)
    IN  IF /\ LitCI(t, p, "include")
           /\ a > p + 7
           /\ Ch(t, a) \in {"\"", "'"}
           /\ LitCI(t, a + 1, "stdgates.inc")
           /\ Ch(t, a + 13) \in {"\"", "'"}
           /\ Ch(t, e) = ";"
        THEN e + 1 ELSE 0

\* re.sub(include pattern, '', text) from position a on
RECURSIVE RemoveIncludes(_, _)
RemoveIncludes(t, a) ==
    LET S == {q \in a..Len(t) : IncludeAt(t, q) # 0}
    IN  IF S = {} THEN From(t, a)
        ELSE Slice(t, a, Least(S)) \o RemoveIncludes(t, IncludeAt(t, Least(S)))

\* OPENQASM\s+3\s*;  matched at p: the end, or 0
HeaderAt(t, p) ==
    LET a == Skip(t, p + 8, SpaceChars)
        e == Skip(t, a + 1, SpaceChars)
    IN  IF LitCI(t, p, "openqasm") /\ a > p + 8 /\ Ch(t, a) = "3" /\ Ch(t, e) = ";"
        THEN e + 1 ELSE 0

RECURSIVE ReplaceHeader(_, _)
ReplaceHeader(t, a) ==
    LET S == {q \in a..Len(t) : HeaderAt(t, q) # 0}
    IN  IF S = {} THEN From(t, a)
        ELSE Slice(t, a, Least(S)) \o "OPENQASM 2.0;" \o ReplaceHeader(t, HeaderAt(t, Least(S)))

\* re.sub(declaration pattern, f'{reg} {name}[{size}];', text)
RECURSIVE ReplaceDecls(_, _, _, _, _)
ReplaceDecls(t, a, kw, wb, reg) ==
    LET S == {q \in a..Len(t) : DeclAt(t, q, kw, wb).ok}
    IN  IF S = {} THEN From(t, a)
        ELSE LET m == DeclAt(t, Least(S), kw, wb)
             IN  Slice(t, a, Least(S)) \o reg \o " " \o m.name \o "[" \o m.size \o "];"
                 \o ReplaceDecls(t, m.end, kw, wb, reg)

\* [f'measure {qreg}[{i}] -> {creg}[{i}];' for i in range(size)]
MeasureStatements(qreg, creg, size) ==
    [i \in 1..size |->
        "measure " \o qreg \o "[" \o StrOf(i - 1) \o "] -> " \o creg \o "[" \o StrOf(i - 1) \o "];"]

\* expand_measurement (simulator.py 73-88)
expand_measurement(m, sizes) ==
    IF m.qreg \in DOMAIN sizes
    THEN Join(MeasureStatements(m.qreg, m.creg, sizes[m.qreg]), "\n")
    ELSE "measure " \o m.qreg \o " -> " \o m.creg \o ";"

RECURSIVE ExpandMeasurements(_, _, _)
ExpandMeasurements(t, a, sizes) ==
    LET S == {q \in a..Len(t) : MeasureAt(t, q).ok}
    IN  IF S = {} THEN From(t, a)
        ELSE LET m == MeasureAt(t, Least(S))
             IN  Slice(t, a, Least(S)) \o expand_measurement(m, sizes)
                 \o ExpandMeasurements(t, m.end, sizes)

\* \n\s*\n\s*\n  matched at p: the end, or 0.  The match runs from the
\* newline at p to the last newline of the white space that starts there,
\* which must hold three newlines.
BlankLinesAt(t, p) ==
    LET r == Skip(t, p, SpaceChars)
        N == {q \in p..(r - 1) : Ch(t, q) = "\n"}
    IN  IF Ch(t, p) = "\n" /\ Cardinality(N) >= 3
        THEN (CHOOSE q \in N : \A u \in N : u <= q) + 1
        ELSE 0

RECURSIVE CollapseBlankLines(_, _)
CollapseBlankLines(t, a) ==
    LET S == {q \in a..Len(t) : BlankLinesAt(t, q) # 0}
    IN  IF S = {} THEN From(t, a)
        ELSE Slice(t, a, Least(S)) \o "\n\n" \o CollapseBlankLines(t, BlankLinesAt(t, Least(S)))

convert_qasm3_to_qasm2(qasm3_code) ==
    LET sizes == register_sizes(qasm3_code)
        t1 == RemoveIncludes(qasm3_code, 1)
        t2 == ReplaceHeader(t1, 1)
        t3 == ReplaceDecls(t2, 1, "qubit", FALSE, "qreg")
        t4 == ReplaceDecls(t3, 1, "bit", TRUE, "creg")
        t5 == ExpandMeasurements(t4, 1, sizes)
    IN  CollapseBlankLines(t5, 1)

(***************************************************************************)
(* The inputs: a source text is written out from a list of declarations,   *)
(* free text, at most one counted loop given by its parts, and more text.  *)
(***************************************************************************)
MaxDecls == 2

MaxLoopEnd == 3

Decl(kind, size, name) == [kind |-> kind, size |-> size, name |-> name]

DeclSpace == {Decl(k, n, r) : k \in {"qubit", "bit"}, n \in {1, 2}, r \in {"q", "c"}}

DeclLists == UNION {[1..n -> DeclSpace] : n \in 0..MaxDecls}

NoLoopD == [on |-> FALSE, var |-> "", lo |-> 0, hi |-> 0, tmpl |-> << >>]

LoopD(var, lo, hi, tmpl) == [on |-> TRUE, var |-> var, lo |-> lo, hi |-> hi, tmpl |-> tmpl]

\* The pieces of a loop body with x put between each two of them.
RECURSIVE Filled(_, _)
Filled(tmpl, x) ==
    IF Len(tmpl) = 0 THEN ""
    ELSE IF Len(tmpl) = 1 THEN tmpl[1]
    ELSE tmpl[1] \o x \o Filled(Tail(tmpl), x)

RECURSIVE RenderDecls(_, _)
RenderDecls(decls, sep) ==
    IF Len(decls) = 0 THEN ""
    ELSE decls[1].kind \o "[" \o StrOf(decls[1].size) \o "] " \o decls[1].name \o ";" \o sep
         \o RenderDecls(Tail(decls), sep)

RenderLoop(l) ==
    IF l.on
    THEN "for int " \o l.var \o " in [" \o StrOf(l.lo) \o ":" \o StrOf(l.hi) \o "] {"
         \o Filled(l.tmpl, l.var) \o "}"
    ELSE ""

Render(p) == p.head \o RenderDecls(p.decls, p.sep) \o p.pre \o RenderLoop(p.loop) \o p.post

Program(head, decls, sep, pre, loop, post) ==
    [head |-> head, decls |-> decls, sep |-> sep, pre |-> pre, loop |-> loop, post |-> post]

Text(decls, text) == Program("", decls, "\n", text, NoLoopD, "")

Q3C3 == << Decl("qubit", 3, "q"), Decl("bit", 3, "c") >>

Q2C2 == << Decl("qubit", 2, "q"), Decl("bit", 2, "c") >>

\* Every short list of declarations, followed by a whole-register measurement.
DeclPrograms == {Text(d, "measure q -> c;") : d \in DeclLists}

LoopTemplates ==
    { << " h q[", "]; " >>,
      << "\n  h q[", "];\n  x iq[0];\n" >>,
      << " cx q[", "], q[2]; y q[", "]; " >> }

\* One loop over the registers q and c, followed by a measurement.
LoopPrograms ==
    {Program("", Q3C3, "\n", "", LoopD(v, a, b, t), "\nmeasure q -> c;\n") :
        v \in {"i", "idx"}, a \in 0..1, b \in 0..MaxLoopEnd, t \in LoopTemplates}

\* Source texts whose gate statements all stand inside the braces of a
\* conditional: outside them there are declarations and a measurement only.
GuardedPrograms ==
    { Text(Q2C2, "if (c[0] == 1) {\n  x q[1];\n} else {\n  h z[0];\n}\nmeasure q -> c;"),
      Text(Q2C2, "for int i in [0:11] {\nif (c[0] == 1) {\nx q[0];\n}\n}\nmeasure q -> c;") }

\* Source texts with a conditional or a loop whose opening brace is never
\* closed.
UnbalancedPrograms ==
    { Text(Q2C2, "if (c[0] == 1) {\n  x q[1];\nmeasure q -> c;"),
      Text(Q2C2, "for int i in [0:2] {\n  x q[1];\nmeasure q -> c;") }

\* Ten loops that use up the passes of the loop expansion, each with a
\* conditional in its body.
NestedLoopProgram ==
    Text(Q2C2, "for int i in [0:10] {for int j in [0:1] {if(c){}}}\nmeasure q -> c;")

\* Two statements on one line, written out and as the body of a loop.
TwoGatesOnOneLine == Text(Q2C2, "h q[0]; cx q[0], q[1];\nmeasure q -> c;")

LoopBodyOnOneLine == Text(Q2C2, "for int i in [0:2] { h q[i]; x q[i]; }\nmeasure q -> c;")

\* A bit register whose name ends in "bit", measured into by index.
MeasureIntoMybit ==
    Text(<< Decl("qubit", 2, "q"), Decl("bit", 2, "mybit") >>,
         "x q[0];\nmeasure q[0] -> mybit[1];")

\* Gate statements with an argument that begins like an indexed reference
\* and goes on: trailing text, and a missing comma.
InexactArgumentPrograms ==
    { Text(Q2C2, "h q[1]x;\nmeasure q -> c;"),
      Text(Q2C2, "h q[0] q[1];\nmeasure q -> c;") }

\* Gate calls with more or fewer arguments than the gate has qubits.
ArityPrograms ==
    { Text(Q3C3, "ccx q[0], q[1], q[2], q[0];\nmeasure q -> c;"),
      Text(Q2C2, "cx q[0];\nmeasure q -> c;"),
      Text(Q2C2, "h q[0], q[1];\nmeasure q -> c;") }

\* A register declared with size 0 before the registers the program uses.
ZeroSizeProgram ==
    Text(<< Decl("qubit", 0, "q"), Decl("qubit", 2, "r"), Decl("bit", 2, "c") >>,
         "h r[0];\nmeasure r -> c;")

\* A loop over j inside a loop over i, the body a gate on q[i] and r[j].
NestedDecls == << Decl("qubit", 10, "q"), Decl("qubit", 3, "r"), Decl("bit", 3, "c") >>

NestedTemplate(c, d) ==
    << "\nfor int j in [" \o StrOf(c) \o ":" \o StrOf(d) \o "] {\n  cx q[", "], r[j];\n}\n" >>

NestedProgram(a, b, c, d) ==
    Program("", NestedDecls, "\n", "", LoopD("i", a, b, NestedTemplate(c, d)),
            "\nmeasure r -> c;")

\* The numbers of turns of the outer loop: none, two, and as many as leave
\* one pass for the outer loop itself.
NestedSpans == {0, 2, max_iterations - 1}

InnerRanges == { << 0, 2 >>, << 1, 3 >>, << 2, 2 >> }

NestedPrograms ==
    {NestedProgram(a, a + n, cd[1], cd[2]) : a \in 0..1, n \in NestedSpans, cd \in InnerRanges}

TextPrograms ==
    { Text(Q2C2, "h q[0];\ncx q[0], q[1];\nmeasure q -> c;"),
      Program("", Q2C2, " ", "h q[0]; cx q[0], q[1]; measure q -> c;", NoLoopD, ""),
      Program("OPENQASM 3;\ninclude \"stdgates.inc\";\n", Q2C2, "\n",
              "h q[0];\nmeasure q[0] -> c[1];\n", NoLoopD, ""),
      Text(<< Decl("qubit", 1, "a"), Decl("qubit", 2, "q"), Decl("bit", 3, "d"), Decl("bit", 2, "c") >>,
           "x a[0];\nmeasure q -> c;\nmeasure a[0] -> d[2];"),
      Text(<< Decl("qubit", 2, "q"), Decl("bit", 3, "c") >>, "h q[0];\nmeasure q -> c;"),
      Text(Q2C2, "h q[0];\nh z[0];\nmeasure q -> c;"),
      Text(Q2C2, "h q[0];\nh c[0];"),
      Text(Q2C2, "h q[0];\nh mybit[0];\nmeasure q -> c;"),
      Text(<< Decl("qubit", 10, "q"), Decl("bit", 10, "c") >>, "x q[9];\ncx q[10], z[0];"),
      Text(Q2C2, "h q[0];\ncx q[0], q[1];"),
      Text(Q2C2, "h q[0];\nfoo q[1];\nmeasure q -> c;"),
      Text(Q2C2, "h q[0];\ncx q[0], q[1], q[0];\nmeasure q -> c;"),
      Text(Q2C2, "x q[0];\nmeasure q[0] -> c[2];"),
      Text(Q2C2, "x q[0];\nh q[i];"),
      Text(Q2C2, "measure q -> z;"),
      Text(Q3C3, "for int i in [0:11] {if(c){}}\nmeasure q -> c;"),
      Text(<< Decl("qubit", 2, "q"), Decl("qubit", 1, "q"), Decl("bit", 1, "c") >>,
           "h q[0];\nmeasure q -> c;") }

Programs ==
    DeclPrograms \cup LoopPrograms \cup TextPrograms
    \cup GuardedPrograms \cup UnbalancedPrograms
    \cup InexactArgumentPrograms \cup ArityPrograms \cup NestedPrograms
    \cup {NestedLoopProgram, TwoGatesOnOneLine, LoopBodyOnOneLine, MeasureIntoMybit,
          ZeroSizeProgram}

\* The source texts of the calls that follow one another: a loop, a
\* conditional, a register declared twice, an undeclared register.
RepeatPrograms ==
    { Program("", Q3C3, "\n", "", LoopD("i", 0, 2, << " h q[", "]; " >>), "\nmeasure q -> c;\n"),
      Text(Q2C2, "if (c[0] == 1) {\n  x q[1];\n} else {\n  h z[0];\n}\nmeasure q -> c;"),
      Text(<< Decl("qubit", 2, "q"), Decl("qubit", 1, "q"), Decl("bit", 1, "c") >>,
           "h q[0];\nmeasure q -> c;"),
      Text(Q2C2, "h q[0];\nh z[0];\nmeasure q -> c;") }

\* The calls one process serves, one after another.
MaxInvocations == 2

Shots == {100, 1024}

(***************************************************************************)
(* The syntax trees validate_qasm is given, in the shapes it reads         *)
(* (validator.py 31-82): a Program holds statements; a declaration holds   *)
(* the names it declares; a gate holds its arguments; a measurement        *)
(* statement holds the measured argument; a loop holds its block.  An      *)
(* argument is an IndexedIdentifier (q[0]) or a plain Identifier (q).      *)
(***************************************************************************)
Tree(statements) == [type |-> "Program", statements |-> statements]

Arg(indexed, name) == [indexed |-> indexed, name |-> name]

Statement(type, names, args, block) ==
    [type |-> type, names |-> names, args |-> args, block |-> block]

QuantumDeclaration(name) == Statement("QuantumDeclaration", << name >>, << >>, << >>)

ClassicalDeclaration(name) == Statement("ClassicalDeclaration", << name >>, << >>, << >>)

QuantumGate(args) == Statement("QuantumGate", << >>, args, << >>)

QuantumMeasurementStatement(arg) == Statement("QuantumMeasurementStatement", << >>, << arg >>, << >>)

ForInLoop(block) == Statement("ForInLoop", << >>, << >>, block)

\* The statements the trees are made of: declarations of q, r and c, gates
\* and measurements on q by index and by name, a gate on q and r, and a
\* loop around a gate on q.
Statements ==
    { QuantumDeclaration("q"),
      QuantumDeclaration("r"),
      ClassicalDeclaration("c"),
      QuantumGate(<< Arg(TRUE, "q") >>),
      QuantumGate(<< Arg(FALSE, "q") >>),
      QuantumGate(<< Arg(TRUE, "q"), Arg(TRUE, "r") >>),
      QuantumMeasurementStatement(Arg(TRUE, "q")),
      QuantumMeasurementStatement(Arg(FALSE, "q")),
      ForInLoop(<< QuantumGate(<< Arg(TRUE, "q") >>) >>) }

MaxStatements == 3

Trees == {Tree(s) : s \in UNION {[1..n -> Statements] : n \in 0..MaxStatements}}

(***************************************************************************)
(* The state: one invocation of an entry point on one source text.         *)
(***************************************************************************)
VARIABLES
    prog,                    \* the parts qasm_code is written out from
    invocation,              \* the number of the call being served
    QASM3_PARSER_AVAILABLE,  \* parser.py 9-13, set at import
    pc,                      \* the statement the invocation is at
    entry,                   \* the entry point called
    qasm_code,               \* the source text
    shots,
    qubit_registers,         \* name -> (offset, size)
    bit_registers,
    total_qubits,
    total_bits,
    expanded_code,
    iteration,
    lines,
    line_no,                 \* the line of lines the for loop is at
    circuit,                 \* the QuantumCircuit being built or simulated
    qasm2_code,              \* the legacy text of the fallback
    path,                    \* "primary" or "fallback" in simulate_from_qasm_string
    primary_exception,       \* str(e) of "except Exception as e" (simulator.py 436)
    calls,                   \* the functions entered so far, in order
    result,                  \* what the caller of the entry point receives
    ast_node,                \* the syntax tree given to validate_qasm
    declared_qubits,         \* validator.py 25
    declared_bits,           \* validator.py 26
    has_measurements,        \* validator.py 27
    statement_no,            \* the statement of the tree visit_node is at
    validation               \* how validate_qasm ended

vars == << prog, invocation, QASM3_PARSER_AVAILABLE, pc, entry, qasm_code, shots,
           qubit_registers, bit_registers, total_qubits, total_bits,
           expanded_code, iteration, lines, line_no, circuit, qasm2_code,
           path, primary_exception, calls, result,
           ast_node, declared_qubits, declared_bits, has_measurements,
           statement_no, validation >>

validator_vars == << ast_node, declared_qubits, declared_bits, has_measurements,
                     statement_no, validation >>

build_vars == << qubit_registers, bit_registers, total_qubits, total_bits,
                 expanded_code, iteration, lines, line_no >>

input_vars == << prog, invocation, QASM3_PARSER_AVAILABLE, qasm_code, validator_vars >>

\* QuantumCircuit(num_qubits, num_clbits)
QuantumCircuit(nq, nc) ==
    [num_qubits |-> nq, num_clbits |-> nc, data |-> << >>, parameters |-> {}]

NoResult ==
    [kind |-> "none", class |-> "", code |-> "", origin |-> "",
     counts |-> "", qubits |-> 0, shots |-> 0]

\* An exception of the given class reaching the caller; origin is the
\* message of the exception first raised.
Error(class, code, origin) ==
    [kind |-> "error", class |-> class, code |-> code, origin |-> origin,
     counts |-> "", qubits |-> 0, shots |-> 0]

\* {"counts": counts, "qubits": circuit.num_qubits, "shots": shots}
Ok(counts, c, n) ==
    [kind |-> "ok", class |-> "", code |-> "", origin |-> "",
     counts |-> counts, qubits |-> c.num_qubits, shots |-> n]

\* The /compile route on what compile_and_simulate hands back or raises:
\* the status and the prefix of the error text (app.py 775-799).
compile(r) ==
    IF r.kind = "ok" THEN [status |-> 200, error |-> ""]
    ELSE IF r.class = "CompilationError" THEN [status |-> 400, error |-> "Compilation error"]
    ELSE IF r.class = "SimulationError" THEN [status |-> 500, error |-> "Simulation error"]
    ELSE [status |-> 500, error |-> "Unexpected error"]

\* What the external parser and the legacy loader may hand back.
LibraryCircuits ==
    { [num_qubits |-> 1, num_clbits |-> 1, parameters |-> {"theta"},
       data |-> << GateOp("ry", << 0 >>), MeasureOp(0, 0) >>],
      [num_qubits |-> 2, num_clbits |-> 2, parameters |-> {},
       data |-> << GateOp("h", << 0 >>), GateOp("cx", << 0, 1 >>) >>] }

\* A check that is content with any operation at all.
HasOperation(c) == Len(c.data) > 0

\* any(inst.operation.name == 'measure' for inst in circuit.data)
HasMeasure(c) == \E i \in 1..Len(c.data) : c.data[i].name = "measure"

Init ==
    /\ prog \in Programs
    /\ invocation = 1
    /\ qasm_code = Render(prog)
    /\ QASM3_PARSER_AVAILABLE \in BOOLEAN
    /\ pc = "idle"
    /\ entry = "none"
    /\ shots = 0
    /\ qubit_registers = EmptyTable
    /\ bit_registers = EmptyTable
    /\ total_qubits = 0
    /\ total_bits = 0
    /\ expanded_code = ""
    /\ iteration = 0
    /\ lines = << >>
    /\ line_no = 0
    /\ circuit = QuantumCircuit(0, 0)
    /\ qasm2_code = ""
    /\ path = "none"
    /\ primary_exception = ""
    /\ calls = << >>
    /\ result = NoResult
    /\ ast_node = Tree(<< >>)
    /\ declared_qubits = {}
    /\ declared_bits = {}
    /\ has_measurements = FALSE
    /\ statement_no = 0
    /\ validation = "none"

(***************************************************************************)
(* executor.py: compile_and_simulate, with parser.py: parse_qasm and       *)
(* parse_openqasm3, for language = 'openqasm3'.                            *)
(***************************************************************************)
CallCompileAndSimulate ==
    /\ pc = "idle"
    /\ \E n \in Shots : shots' = n
    /\ entry' = "compile_and_simulate"
    /\ calls' = Append(calls, "compile_and_simulate")
    /\ pc' = "parse_qasm"
    /\ UNCHANGED << input_vars, build_vars, circuit, qasm2_code, path, primary_exception, result >>

\* except CompilationError: raise / except Exception as e: raise
\* CompilationError("Failed to parse OpenQASM 3 code: ...")  (executor.py 59-65)
ExecutorRaises(class, code) ==
    IF class = "CompilationError" THEN Error(class, code, code)
    ELSE Error("CompilationError", "Failed to parse OpenQASM 3 code", code)

\* parse_openqasm3 returns None without the parser (parser.py 58-60), and
\* compile_and_simulate then raises (executor.py 34-44).
ParserMissing ==
    /\ pc = "parse_qasm"
    /\ ~QASM3_PARSER_AVAILABLE
    /\ calls' = calls \o << "parse_qasm", "parse_openqasm3" >>
    /\ result' = ExecutorRaises("CompilationError", "OpenQASM 3 parser not available")
    /\ pc' = "done"
    /\ UNCHANGED << input_vars, entry, shots, build_vars, circuit, qasm2_code, path, primary_exception >>

\* qiskit.qasm3.loads(code) raises, or returns a circuit (parser.py 62-68).
ParserLoads ==
    /\ pc = "parse_qasm"
    /\ QASM3_PARSER_AVAILABLE
    /\ calls' = calls \o << "parse_qasm", "parse_openqasm3", "qiskit.qasm3.loads" >>
    /\ \E parsed \in BOOLEAN :
          IF parsed
          THEN /\ \E c \in LibraryCircuits : circuit' = c
               /\ pc' = "simulate"
               /\ UNCHANGED result
          ELSE /\ result' = ExecutorRaises("CompilationError", "Parse error")
               /\ pc' = "done"
               /\ UNCHANGED circuit
    /\ UNCHANGED << input_vars, entry, shots, build_vars, qasm2_code, path, primary_exception >>

(***************************************************************************)
(* simulator.py: simulate_from_qasm_string and build_circuit_from_qasm3.   *)
(***************************************************************************)
CallSimulateFromQasmString ==
    /\ pc = "idle"
    /\ \E n \in Shots : shots' = n
    /\ entry' = "simulate_from_qasm_string"
    /\ path' = "primary"
    /\ UNCHANGED primary_exception
    /\ calls' = calls \o << "simulate_from_qasm_string", "build_circuit_from_qasm3" >>
    /\ pc' = "registers"
    /\ UNCHANGED << input_vars, build_vars, circuit, qasm2_code, result >>

\* Tables and totals that live on from call to call: the totals go on
\* counting and the circuit is allocated with them.
BuildRegistersAccumulating ==
    /\ pc = "registers"
    /\ LET qt == QubitTable(qasm_code)
           bt == BitTable(qasm_code)
       IN  /\ qubit_registers' = qt.table @@ qubit_registers
           /\ total_qubits' = total_qubits + qt.total
           /\ bit_registers' = bt.table @@ bit_registers
           /\ total_bits' = total_bits + bt.total
           /\ \E allocated \in BOOLEAN :
                IF allocated
                THEN /\ circuit' = QuantumCircuit(total_qubits + qt.total, total_bits + bt.total)
                     /\ expanded_code' = qasm_code
                     /\ pc' = "expand_loops"
                     /\ UNCHANGED << path, primary_exception, calls >>
                ELSE /\ path' = "fallback"
                     /\ primary_exception' = "QuantumCircuit"
                     /\ calls' = Append(calls, "convert_qasm3_to_qasm2")
                     /\ pc' = "convert"
                     /\ UNCHANGED << circuit, expanded_code >>
    /\ iteration' = 0
    /\ UNCHANGED << input_vars, entry, shots, lines, line_no, qasm2_code, result >>

\* simulator.py 166-217.  QuantumCircuit(total_qubits, total_bits) is the
\* library's: allocated says whether it returned the circuit; when it
\* raises, the exception is no SimulationError and the fallback is taken
\* (simulator.py 436-439).
BuildRegisters ==
    /\ pc = "registers"
    /\ LET qt == QubitTable(qasm_code)
           bt == BitTable(qasm_code)
       IN  /\ qubit_registers' = qt.table
           /\ total_qubits' = qt.total
           /\ bit_registers' = bt.table
           /\ total_bits' = bt.total
           /\ \E allocated \in BOOLEAN :
                IF allocated
                THEN /\ circuit' = QuantumCircuit(qt.total, bt.total)
                     /\ expanded_code' = qasm_code
                     /\ pc' = "expand_loops"
                     /\ UNCHANGED << path, primary_exception, calls >>
                ELSE /\ path' = "fallback"
                     /\ primary_exception' = "QuantumCircuit"
                     /\ calls' = Append(calls, "convert_qasm3_to_qasm2")
                     /\ pc' = "convert"
                     /\ UNCHANGED << circuit, expanded_code >>
    /\ iteration' = 0
    /\ UNCHANGED << input_vars, entry, shots, lines, line_no, qasm2_code, result >>

\* One pass of "while iteration < max_iterations" that rewrites the text
\* (simulator.py 236-262).
ExpandLoopPass ==
    /\ pc = "expand_loops"
    /\ iteration < max_iterations
    /\ LET lm == LoopMatch(expanded_code)
       IN  /\ lm.m.ok
           /\ lm.brace_end # 0
           /\ expanded_code' = ExpandLoop(expanded_code, lm)
    /\ iteration' = iteration + 1
    /\ UNCHANGED << input_vars, pc, entry, shots, qubit_registers, bit_registers,
                    total_qubits, total_bits, lines, line_no, circuit, qasm2_code,
                    path, primary_exception, calls, result >>

\* An end of the loop expansion that hands its count of passes on to the
\* removal of conditionals.
ExpandLoopsEndKeepsCount ==
    /\ pc = "expand_loops"
    /\ LET lm == LoopMatch(expanded_code)
       IN  ~(iteration < max_iterations /\ lm.m.ok /\ lm.brace_end # 0)
    /\ pc' = "remove_conditionals"
    /\ UNCHANGED << input_vars, entry, shots, qubit_registers, bit_registers,
                    total_qubits, total_bits, expanded_code, iteration, lines, line_no,
                    circuit, qasm2_code, path, primary_exception, calls, result >>

\* The loop ends: the cap, no match, or no matching brace; iteration = 0
\* (simulator.py 236-248, 266).
ExpandLoopsEnd ==
    /\ pc = "expand_loops"
    /\ LET lm == LoopMatch(expanded_code)
       IN  ~(iteration < max_iterations /\ lm.m.ok /\ lm.brace_end # 0)
    /\ iteration' = 0
    /\ pc' = "remove_conditionals"
    /\ UNCHANGED << input_vars, entry, shots, qubit_registers, bit_registers,
                    total_qubits, total_bits, expanded_code, lines, line_no,
                    circuit, qasm2_code, path, primary_exception, calls, result >>

\* One pass of the second while loop that rewrites the text
\* (simulator.py 267-295).
RemoveConditionalPass ==
    /\ pc = "remove_conditionals"
    /\ iteration < max_iterations
    /\ LET im == IfMatch(expanded_code)
       IN  /\ IfRemovable(im)
           /\ expanded_code' = RemoveConditional(expanded_code, im)
    /\ iteration' = iteration + 1
    /\ UNCHANGED << input_vars, pc, entry, shots, qubit_registers, bit_registers,
                    total_qubits, total_bits, lines, line_no, circuit, qasm2_code,
                    path, primary_exception, calls, result >>

\* The second loop ends; lines = expanded_code.split('\n')
\* (simulator.py 267-275, 288-289, 298).
RemoveConditionalsEnd ==
    /\ pc = "remove_conditionals"
    /\ ~(iteration < max_iterations /\ IfRemovable(IfMatch(expanded_code)))
    /\ lines' = Split(expanded_code, "\n")
    /\ line_no' = 1
    /\ pc' = "resolve"
    /\ UNCHANGED << input_vars, entry, shots, qubit_registers, bit_registers,
                    total_qubits, total_bits, expanded_code, iteration, circuit,
                    qasm2_code, path, primary_exception, calls, result >>

\* What the line at line_no does to the circuit.
Resolved == ResolveLine(lines[line_no], qubit_registers, bit_registers)

\* A turn of the loop whose raise is taken for any other exception: the
\* legacy conversion is tried next.
ResolveStatementFallsBack ==
    /\ pc = "resolve"
    /\ line_no <= Len(lines)
    /\ \E lenient \in BOOLEAN :
          LET r == Settle(Resolved, lenient)
          IN  IF r.kind = "raise"
              THEN /\ path' = "fallback"
                   /\ primary_exception' = r.code
                   /\ calls' = Append(calls, "convert_qasm3_to_qasm2")
                   /\ pc' = "convert"
                   /\ UNCHANGED << circuit, line_no >>
              ELSE /\ circuit' = [circuit EXCEPT !.data = @ \o r.ops]
                   /\ line_no' = line_no + 1
                   /\ UNCHANGED << pc, path, primary_exception, calls >>
    /\ UNCHANGED << input_vars, entry, shots, qubit_registers, bit_registers,
                    total_qubits, total_bits, expanded_code, iteration, lines,
                    qasm2_code, result >>

\* One turn of "for line in lines" (simulator.py 299-403).  A raise is a
\* SimulationError, which simulate_from_qasm_string passes on
\* (simulator.py 434-435).
ResolveStatement ==
    /\ pc = "resolve"
    /\ line_no <= Len(lines)
    /\ \E lenient \in BOOLEAN :
          LET r == Settle(Resolved, lenient)
          IN  IF r.kind = "raise"
              THEN /\ result' = Error("SimulationError", r.code, r.code)
                   /\ pc' = "done"
                   /\ UNCHANGED << circuit, line_no >>
              ELSE /\ circuit' = [circuit EXCEPT !.data = @ \o r.ops]
                   /\ line_no' = line_no + 1
                   /\ UNCHANGED << pc, result >>
    /\ UNCHANGED << input_vars, entry, shots, qubit_registers, bit_registers,
                    total_qubits, total_bits, expanded_code, iteration, lines,
                    qasm2_code, path, primary_exception, calls >>

\* return circuit (simulator.py 405), then simulate(circuit, shots) (424).
ReturnCircuit ==
    /\ pc = "resolve"
    /\ line_no > Len(lines)
    /\ pc' = "simulate"
    /\ UNCHANGED << input_vars, entry, shots, build_vars, circuit, qasm2_code,
                    path, primary_exception, calls, result >>

(***************************************************************************)
(* simulator.py: the fallback of simulate_from_qasm_string (436-448).      *)
(***************************************************************************)
FallbackConvert ==
    /\ pc = "convert"
    /\ qasm2_code' = convert_qasm3_to_qasm2(qasm_code)
    /\ pc' = "load"
    /\ UNCHANGED << input_vars, entry, shots, build_vars, circuit, path, primary_exception, calls, result >>

\* QuantumCircuit.from_qasm_str(qasm2_code) is the library's: it raises or
\* returns a circuit.  except Exception as e2 (447-448).
FallbackLoad ==
    /\ pc = "load"
    /\ calls' = Append(calls, "from_qasm_str")
    /\ \E loaded \in BOOLEAN :
          IF loaded
          THEN /\ \E c \in LibraryCircuits : circuit' = c
               /\ pc' = "simulate"
               /\ UNCHANGED result
          ELSE /\ result' = Error("SimulationError", "Failed to simulate from QASM",
                                  "from_qasm_str")
               /\ pc' = "done"
               /\ UNCHANGED circuit
    /\ UNCHANGED << input_vars, entry, shots, build_vars, qasm2_code, path, primary_exception >>

(***************************************************************************)
(* simulator.py: simulate (99-150), as its three callers see it.           *)
(***************************************************************************)
\* A SimulationError leaving simulate: compile_and_simulate re-raises it
\* from the inner try and wraps it in the outer one (executor.py 54-65),
\* simulate_from_qasm_string passes it on (434-435) or, in the fallback,
\* wraps it (447-448).
SimulateRaises(code, origin) ==
    IF entry = "compile_and_simulate"
    THEN Error("CompilationError", "Failed to parse OpenQASM 3 code", origin)
    ELSE IF path = "fallback"
    THEN Error("SimulationError", "Failed to simulate from QASM", origin)
    ELSE Error("SimulationError", code, origin)

\* simulator.py 111-118
SimulateCheck ==
    /\ pc = "simulate"
    /\ calls' = Append(calls, "simulate")
    /\ IF ~(circuit.num_clbits > 0) \/ Len(circuit.data) = 0
       THEN /\ result' = SimulateRaises("Circuit has no measurements",
                                        "Circuit has no measurements")
            /\ pc' = "done"
       ELSE IF ~HasMeasure(circuit)
       THEN /\ result' = SimulateRaises("Circuit has no measurement operations",
                                        "Circuit has no measurement operations")
            /\ pc' = "done"
       ELSE /\ pc' = "new_simulator"
            /\ UNCHANGED result
    /\ UNCHANGED << input_vars, entry, shots, build_vars, circuit, qasm2_code, path, primary_exception >>

\* sim = AerSimulator()  (simulator.py 120)
EngineConstruct ==
    /\ pc = "new_simulator"
    /\ calls' = Append(calls, "AerSimulator")
    /\ pc' = "transpile"
    /\ UNCHANGED << input_vars, entry, shots, build_vars, circuit, qasm2_code, path, primary_exception, result >>

\* circuit.assign_parameters for a circuit with parameters, then
\* transpile(circuit, sim), which may raise (simulator.py 123-136, 149-150).
EngineTranspile ==
    /\ pc = "transpile"
    /\ calls' = calls \o (IF circuit.parameters # {} THEN << "assign_parameters" >> ELSE << >>)
                      \o << "transpile" >>
    /\ \E transpiled \in BOOLEAN :
          IF transpiled
          THEN /\ pc' = "run"
               /\ UNCHANGED result
          ELSE /\ result' = SimulateRaises("Simulation failed", "transpile")
               /\ pc' = "done"
    /\ UNCHANGED << input_vars, entry, shots, build_vars, circuit, qasm2_code, path, primary_exception >>

\* sim.run, job.result, get_counts, the check of the counts and the return
\* to the caller, which builds its answer (simulator.py 138-146, 429-433,
\* 442-446; executor.py 49-53).
EngineRun ==
    /\ pc = "run"
    /\ calls' = Append(calls, "run")
    /\ \E outcome \in {"counts", "empty", "raise"} :
          result' = IF outcome = "counts" THEN Ok("counts", circuit, shots)
                    ELSE IF outcome = "empty"
                    THEN SimulateRaises("Simulation completed but returned no counts",
                                        "Simulation completed but returned no counts")
                    ELSE SimulateRaises("Simulation failed", "run")
    /\ pc' = "done"
    /\ UNCHANGED << input_vars, entry, shots, build_vars, circuit, qasm2_code, path, primary_exception >>

Next ==
    \/ CallCompileAndSimulate
    \/ ParserMissing
    \/ ParserLoads
    \/ CallSimulateFromQasmString
    \/ BuildRegisters
    \/ ExpandLoopPass
    \/ ExpandLoopsEnd
    \/ RemoveConditionalPass
    \/ RemoveConditionalsEnd
    \/ ResolveStatement
    \/ ReturnCircuit
    \/ FallbackConvert
    \/ FallbackLoad
    \/ SimulateCheck
    \/ EngineConstruct
    \/ EngineTranspile
    \/ EngineRun

Spec == Init /\ [][Next]_vars

(***************************************************************************)
(* Calls that follow one another in one process.  The flags of parser.py   *)
(* are module-level; every other name is local to the function that binds  *)
(* it, so what a name held in the call before is of no account: it is left *)
(* as it was until the statements of the new call bind it.                 *)
(***************************************************************************)
\* The call has returned or raised, and the next one arrives with its own
\* source text (app.py 729-799).
NextInvocation ==
    /\ pc = "done"
    /\ invocation < MaxInvocations
    /\ invocation' = invocation + 1
    /\ \E p \in RepeatPrograms :
          /\ prog' = p
          /\ qasm_code' = Render(p)
    /\ pc' = "idle"
    /\ entry' = "none"
    /\ calls' = << >>
    /\ result' = NoResult
    /\ UNCHANGED << QASM3_PARSER_AVAILABLE, shots, build_vars, circuit, qasm2_code,
                    path, primary_exception, validator_vars >>

InitSessions == Init /\ prog \in RepeatPrograms

NextSessions == Next \/ NextInvocation

SpecSessions == InitSessions /\ [][NextSessions]_vars

(***************************************************************************)
(* What the parts of prog say about the source text, without reading it.   *)
(***************************************************************************)
\* The sum of the sizes of the declarations of one kind among the first n.
RECURSIVE SizeSum(_, _, _)
SizeSum(decls, kind, n) ==
    IF n = 0 THEN 0
    ELSE SizeSum(decls, kind, n - 1) + (IF decls[n].kind = kind THEN decls[n].size ELSE 0)

Declared(kind, name) ==
    \E k \in 1..Len(prog.decls) : prog.decls[k].kind = kind /\ prog.decls[k].name = name

\* The place of the last declaration of a register.
LastDecl(kind, name) ==
    CHOOSE k \in 1..Len(prog.decls) :
        /\ prog.decls[k].kind = kind /\ prog.decls[k].name = name
        /\ \A j \in (k + 1)..Len(prog.decls) :
              ~(prog.decls[j].kind = kind /\ prog.decls[j].name = name)

OffsetOf(kind, name) == SizeSum(prog.decls, kind, LastDecl(kind, name) - 1)

SizeOf(kind, name) == prog.decls[LastDecl(kind, name)].size

DeclNames(kind) == {prog.decls[k].name : k \in {j \in 1..Len(prog.decls) : prog.decls[j].kind = kind}}

TableOf(kind) == IF kind = "qubit" THEN qubit_registers ELSE bit_registers

Range(seq) == {seq[i] : i \in 1..Len(seq)}

\* build_circuit_from_qasm3 has built its register tables and its circuit.
TablesBuilt ==
    /\ entry = "simulate_from_qasm_string"
    /\ path = "primary"
    /\ pc \notin {"idle", "registers"}

(***************************************************************************)
(* The register tables                                                     *)
(***************************************************************************)
\* C1: once the register tables are built, each declared register stands in
\* the table of its kind with the size of its (last) declaration and an
\* offset equal to the sum of the sizes of the declarations of the same kind
\* before it; the table of a kind holds the names declared with that kind
\* and no other; total_qubits and total_bits are the sums of all declared
\* qubit sizes and of all declared bit sizes.
RegisterOffsetsAreRunningSums ==
    TablesBuilt =>
        /\ total_qubits = SizeSum(prog.decls, "qubit", Len(prog.decls))
        /\ total_bits = SizeSum(prog.decls, "bit", Len(prog.decls))
        /\ \A kind \in {"qubit", "bit"} :
              /\ DOMAIN TableOf(kind) = DeclNames(kind)
              /\ \A name \in DeclNames(kind) :
                    TableOf(kind)[name] = << OffsetOf(kind, name), SizeOf(kind, name) >>

\* Tables built from two qubit registers and two bit registers, the second
\* of each kind at a non-zero offset that ignores the other kind.
RegisterOffsetsBuilt ==
    /\ TablesBuilt
    /\ prog.decls = << Decl("qubit", 1, "a"), Decl("qubit", 2, "q"),
                       Decl("bit", 3, "d"), Decl("bit", 2, "c") >>
    /\ qubit_registers["q"] = << 1, 2 >>
    /\ bit_registers["c"] = << 3, 2 >>
    /\ total_qubits = 3
    /\ total_bits = 5

(***************************************************************************)
(* Loop expansion                                                          *)
(***************************************************************************)
\* The copies of a loop body for k = lo, ..., hi - 1, as prog describes them.
RECURSIVE Copies(_, _, _)
Copies(tmpl, lo, hi) ==
    IF lo >= hi THEN << >> ELSE << Filled(tmpl, StrOf(lo)) >> \o Copies(tmpl, lo + 1, hi)

HGates(lo, hi) == [i \in 1..(IF hi > lo THEN hi - lo ELSE 0) |-> GateOp("h", << lo + i - 1 >>)]

\* C2: the first pass over a text with one loop "for int v in [s:e] { body }"
\* leaves the text before the loop, then the copies of the body with k put
\* for each whole-word v, for k = s, ..., e - 1 in ascending order, one
\* copy per line, then the text after the loop; and the loop
\* "for int v in [s:e] { h q[v]; }" over a register of three qubits
\* compiles to the operations h s, ..., h e-1 in that order, followed only
\* by the operations of the statements after the loop.
LoopReplacedByCopies ==
    /\ (prog.loop.on /\ pc = "expand_loops" /\ iteration = 1) =>
            expanded_code = prog.head \o RenderDecls(prog.decls, prog.sep) \o prog.pre
                            \o Join(Copies(prog.loop.tmpl, prog.loop.lo, prog.loop.hi), "\n")
                            \o prog.post
    /\ (prog.loop.on /\ prog.loop.tmpl = << " h q[", "]; " >> /\ TablesBuilt /\ pc = "simulate") =>
            circuit.data = HGates(prog.loop.lo, prog.loop.hi) \o MeasureAll(0, 0, 3)

\* "for int i in [0:3] { h q[i]; }" compiled to h 0, h 1, h 2 and the
\* measurement that follows it.
LoopOfThreeCompiled ==
    /\ prog.loop = LoopD("i", 0, 3, << " h q[", "]; " >>)
    /\ TablesBuilt
    /\ pc = "simulate"
    /\ circuit.data = << GateOp("h", << 0 >>), GateOp("h", << 1 >>), GateOp("h", << 2 >>),
                         MeasureOp(0, 0), MeasureOp(1, 1), MeasureOp(2, 2) >>

(***************************************************************************)
(* Whole-register measurement                                              *)
(***************************************************************************)
MeasureLine(R, C) == "measure " \o R \o " -> " \o C \o ";"

\* The resolver is about to read a line that holds the statement text and
\* nothing else.
AtStatement(text) ==
    /\ pc = "resolve"
    /\ line_no <= Len(lines)
    /\ Strip(lines[line_no]) = text

\* C3: when the resolver reads "measure R -> C;" with R a declared qubit
\* register and C a declared bit register of the same size n, that step adds
\* to the circuit exactly n measurements, the i-th (i = 0..n-1, ascending)
\* of qubit offset(R)+i into bit offset(C)+i, and goes on to the next line.
WholeRegisterMeasureEmits ==
    [][\A R \in DeclNames("qubit"), C \in DeclNames("bit") :
          (AtStatement(MeasureLine(R, C)) /\ SizeOf("qubit", R) = SizeOf("bit", C)) =>
              /\ circuit'.data = circuit.data \o
                    [i \in 1..SizeOf("qubit", R) |->
                        MeasureOp(OffsetOf("qubit", R) + i - 1, OffsetOf("bit", C) + i - 1)]
              /\ pc' = "resolve"
              /\ line_no' = line_no + 1
              /\ result' = result]_vars

\* "measure q -> c;" read with q at qubit offset 1 and c at bit offset 3,
\* both of size 2: the two measurements 1 -> 3 and 2 -> 4 are in the circuit.
WholeRegisterMeasured ==
    /\ prog.decls = << Decl("qubit", 1, "a"), Decl("qubit", 2, "q"),
                       Decl("bit", 3, "d"), Decl("bit", 2, "c") >>
    /\ pc = "resolve"
    /\ line_no > 1
    /\ Strip(lines[line_no - 1]) = MeasureLine("q", "c")
    /\ circuit.data = << GateOp("x", << 0 >>), MeasureOp(1, 3), MeasureOp(2, 4) >>

\* C4: when the resolver reads "measure R -> C;" with R a declared qubit
\* register and C a declared bit register of another size, that step ends
\* the compilation with the size-mismatch error and adds no operation to
\* the circuit; nothing is simulated.
SizeMismatchAborts ==
    [][\A R \in DeclNames("qubit"), C \in DeclNames("bit") :
          (AtStatement(MeasureLine(R, C)) /\ SizeOf("qubit", R) # SizeOf("bit", C)) =>
              /\ pc' = "done"
              /\ result' = Error("SimulationError", "Register size mismatch",
                                 "Register size mismatch")
              /\ circuit' = circuit
              /\ calls' = calls]_vars

\* "measure q -> c;" with q of size 2 and c of size 3 ended the compilation:
\* the circuit holds the gate before the statement and no measurement.
SizeMismatchRaised ==
    /\ prog.decls = << Decl("qubit", 2, "q"), Decl("bit", 3, "c") >>
    /\ pc = "done"
    /\ line_no \in 1..Len(lines)
    /\ Strip(lines[line_no]) = MeasureLine("q", "c")
    /\ result.code = "Register size mismatch"
    /\ circuit.data = << GateOp("h", << 0 >>) >>

(***************************************************************************)
(* Gate arguments                                                          *)
(***************************************************************************)
\* C5: when the resolver reads a gate statement "h r[0];" whose register r
\* has no qubit declaration in the source, that step ends the compilation
\* with the unknown-register error.
UndeclaredGateRegisterRaises ==
    [][\A r \in {"z", "c", "mybit"} :
          (AtStatement("h " \o r \o "[0];") /\ ~Declared("qubit", r)) =>
              /\ pc' = "done"
              /\ result'.kind = "error"
              /\ result'.code = "Unknown register"]_vars

(***************************************************************************)
(* simulate                                                                *)
(***************************************************************************)
EngineCalls == {"AerSimulator", "assign_parameters", "transpile", "run"}

\* C6: once simulate has been called on a circuit that holds no measurement,
\* the call has failed with a no-measurement error, and the engine has not
\* been constructed, asked to transpile or run.
NoMeasurementFailsBeforeEngine ==
    ("simulate" \in Range(calls)
        /\ \A i \in 1..Len(circuit.data) : circuit.data[i].name # "measure") =>
        /\ pc = "done"
        /\ result.kind = "error"
        /\ result.origin \in {"Circuit has no measurements",
                               "Circuit has no measurement operations"}
        /\ Range(calls) \cap EngineCalls = {}

\* simulate was called on a compiled circuit of two gates and no
\* measurement, with classical bits allocated.
SimulateRefusedGatesOnly ==
    /\ "simulate" \in Range(calls)
    /\ TablesBuilt
    /\ circuit.num_clbits > 0
    /\ circuit.data = << GateOp("h", << 0 >>), GateOp("cx", << 0, 1 >>) >>
    /\ result.origin = "Circuit has no measurement operations"

(***************************************************************************)
(* The expander as a whole                                                 *)
(***************************************************************************)
\* C7: the text the expander hands to the resolver is a fixed point of the
\* expander: loop expansion followed by conditional removal, applied to it
\* again, returns it unchanged.
ExpanderIdempotent ==
    (pc = "resolve" /\ line_no = 1) => Expand(expanded_code) = expanded_code

(***************************************************************************)
(* End to end                                                              *)
(***************************************************************************)
BellSource == "qubit[2] q; bit[2] c; h q[0]; cx q[0], q[1]; measure q -> c;"

\* C8: simulate_from_qasm_string on BellSource with shots = 100 compiles on
\* the structural path to h 0; cx 0,1; measure 0 -> 0; measure 1 -> 1, the
\* simulation is not refused for want of measurements, and an answer
\* reports 2 qubits and 100 shots.
BellCompilesAndRuns ==
    (/\ qasm_code = BellSource
     /\ shots = 100
     /\ TablesBuilt
     /\ pc \in {"simulate", "new_simulator", "transpile", "run", "done"}) =>
        /\ circuit.data = << GateOp("h", << 0 >>), GateOp("cx", << 0, 1 >>),
                             MeasureOp(0, 0), MeasureOp(1, 1) >>
        /\ result.origin \notin {"Circuit has no measurements",
                                  "Circuit has no measurement operations"}
        /\ result.kind = "ok" => result.qubits = 2 /\ result.shots = 100

(***************************************************************************)
(* Errors of the resolver                                                  *)
(***************************************************************************)
ResolverErrorCodes ==
    {"Register size mismatch", "Unknown registers in measurement",
     "Qubit index out of range", "Bit index out of range", "Unknown register",
     "Unable to parse gate argument", "Error applying gate", "Unsupported gate"}

\* C9: the step in which the resolver raises at a line ends the invocation
\* with that error and reads no further line; and an invocation that ended
\* with a resolver error has simulated nothing, tried no conversion, and
\* hands its caller no counts and no qubit number.
ResolverErrorAborts ==
    /\ [][(pc = "resolve" /\ line_no <= Len(lines) /\ Resolved.kind = "raise") =>
            /\ pc' = "done"
            /\ result' = Error("SimulationError", Resolved.code, Resolved.code)
            /\ line_no' = line_no
            /\ circuit' = circuit
            /\ calls' = calls
            /\ path' = path]_vars
    /\ []((result.kind = "error" /\ result.code \in ResolverErrorCodes) =>
            /\ pc = "done"
            /\ Range(calls) \cap ({"simulate", "convert_qasm3_to_qasm2", "from_qasm_str"}
                                   \cup EngineCalls) = {}
            /\ result.counts = ""
            /\ result.qubits = 0)

\* The resolver raised at "h z[0];" after it had added the gate of the line
\* before to the circuit.
ResolverRaisedAfterPrefix ==
    /\ pc = "done"
    /\ line_no \in 1..Len(lines)
    /\ Strip(lines[line_no]) = "h z[0];"
    /\ circuit.data = << GateOp("h", << 0 >>) >>
    /\ result = Error("SimulationError", "Unknown register", "Unknown register")

(***************************************************************************)
(* compile_and_simulate without the parser                                 *)
(***************************************************************************)
\* C10: a call of compile_and_simulate made without the OpenQASM 3 parser
\* has, when it ends, built the circuit with build_circuit_from_qasm3 and
\* has not failed for want of the parser.
ParserAbsentTakesStructuralPath ==
    (entry = "compile_and_simulate" /\ ~QASM3_PARSER_AVAILABLE /\ pc = "done") =>
        /\ "build_circuit_from_qasm3" \in Range(calls)
        /\ result.code # "OpenQASM 3 parser not available"

(***************************************************************************)
(* The fallback of simulate_from_qasm_string                               *)
(***************************************************************************)
\* C11: an invocation that ended because the resolver raised one of its
\* errors has tried the legacy conversion of the same source before it
\* failed.
StructuralFailureTriesFallback ==
    (/\ entry = "simulate_from_qasm_string"
     /\ pc = "done"
     /\ result.kind = "error"
     /\ result.origin \in ResolverErrorCodes) =>
        "convert_qasm3_to_qasm2" \in Range(calls)

\* C12: when the primary path failed and the fallback failed too, the error
\* the caller receives carries the failure of the primary path.
CombinedErrorCarriesPrimary ==
    (pc = "done" /\ path = "fallback" /\ result.kind = "error") =>
        primary_exception \in {result.code, result.origin}

(***************************************************************************)
(* Error categories of compile_and_simulate                                *)
(***************************************************************************)
\* C13: a failure raised by simulate reaches the caller of
\* compile_and_simulate as a SimulationError, and the /compile route answers
\* it from its SimulationError branch.
SimulateFailureIsSimulationError ==
    (/\ entry = "compile_and_simulate"
     /\ pc = "done"
     /\ "simulate" \in Range(calls)
     /\ result.kind = "error") =>
        /\ result.class = "SimulationError"
        /\ compile(result).error = "Simulation error"

(***************************************************************************)
(* Conditionals and the pass caps                                          *)
(***************************************************************************)
\* C14: of a source text whose gate statements all stand inside conditional
\* blocks, no gate reaches the circuit (it holds measurements only), and
\* the text the resolver reads holds no "if" any more.
ConditionalBodiesContributeNothing ==
    (prog \in GuardedPrograms /\ TablesBuilt) =>
        /\ \A i \in 1..Len(circuit.data) : circuit.data[i].name = "measure"
        /\ pc = "resolve" => ~Contains(expanded_code, "if")

\* C17: a text with balanced braces in which a loop or a conditional is
\* left when the expander is done (the cap of its passes was reached) does
\* not compile: build_circuit_from_qasm3 returns no circuit for it.
LeftoverConstructFailsInResolver ==
    (prog \notin UnbalancedPrograms /\ TablesBuilt /\ pc = "simulate") =>
        ~(LoopSearch(expanded_code).ok \/ IfSearch(expanded_code).ok)

\* C18: a source text with a conditional or a loop whose opening brace has
\* no closing brace does not compile, and the invocation ends with an
\* error of the resolver or expander.
UnmatchedBraceFails ==
    (prog \in UnbalancedPrograms /\ TablesBuilt) =>
        /\ pc # "simulate"
        /\ pc = "done" => (result.kind = "error" /\ "simulate" \notin Range(calls))

(***************************************************************************)
(* The passes of the expander                                              *)
(***************************************************************************)
\* The positions just after a "}" at which the braces from position a on
\* are balanced.
BalancedEnds(code, a) ==
    {b \in (a + 1)..(Len(code) + 1) :
        /\ Ch(code, b - 1) = "}"
        /\ Cardinality({q \in a..(b - 1) : Ch(code, q) = "{"})
             = Cardinality({q \in a..(b - 1) : Ch(code, q) = "}"})}

\* The text after is the text before with the part from a to b - 1 replaced
\* by something else.
Rewritten(before, after, a, b) ==
    /\ Len(after) >= (a - 1) + (Len(before) - b + 1)
    /\ Slice(after, 1, a) = Slice(before, 1, a)
    /\ From(after, Len(after) - (Len(before) - b)) = From(before, b)

\* One construct that starts with the leftmost keyword kw of the text
\* before, and nothing else, is rewritten: a block with balanced braces,
\* with its else block when with_else allows it.
OneConstructRewritten(before, after, kw, with_else) ==
    LET S == {q \in 1..Len(before) : Lit(before, q, kw)}
    IN  /\ S # {}
        /\ BalancedEnds(before, Least(S)) # {}
        /\ LET a  == Least(S)
               e1 == Least(BalancedEnds(before, a))
           IN  \/ Rewritten(before, after, a, e1)
               \/ /\ with_else
                  /\ BalancedEnds(before, e1) # {}
                  /\ LET e2 == Least(BalancedEnds(before, e1))
                     IN  /\ Contains(Slice(before, e1, e2), "else")
                         /\ Rewritten(before, after, a, e2)

\* C16: each of the two loops of the expander makes at most 10 passes; the
\* removal of conditionals starts its count at 0 whatever the loop
\* expansion used; each pass adds one to the count and rewrites one
\* construct, the leftmost of the text, and nothing before or after it; a
\* removed conditional leaves the marker in its place.
ExpansionPassesBounded ==
    /\ [](pc \in {"expand_loops", "remove_conditionals"} => iteration \in 0..10)
    /\ [][(pc = "expand_loops" /\ pc' = "remove_conditionals") => iteration' = 0]_vars
    /\ [][(pc = "expand_loops" /\ pc' = "expand_loops") =>
            /\ iteration' = iteration + 1
            /\ OneConstructRewritten(expanded_code, expanded_code', "for", FALSE)]_vars
    /\ [][(pc = "remove_conditionals" /\ pc' = "remove_conditionals") =>
            /\ iteration' = iteration + 1
            /\ OneConstructRewritten(expanded_code, expanded_code', "if", TRUE)
            /\ Len(expanded_code') < Len(expanded_code) + Len(ConditionalMarker)
            /\ \E a \in 1..Len(expanded_code) :
                  /\ Slice(expanded_code', 1, a) = Slice(expanded_code, 1, a)
                  /\ Lit(expanded_code', a, ConditionalMarker)]_vars

\* The loop expansion stopped at its cap with a loop left in the text, and
\* the removal of conditionals has since made its own ten passes, which
\* removed every conditional.
BothCapsReached ==
    /\ pc = "remove_conditionals"
    /\ iteration = 10
    /\ Contains(expanded_code, "for int")
    /\ ~Contains(expanded_code, "if")

(***************************************************************************)
(* Statements that share a line                                            *)
(***************************************************************************)
\* C19: every statement of a line yields its operation, in source order:
\* "h q[0]; cx q[0], q[1];" on one line compiles to h 0; cx 0,1, and the
\* loop "for int i in [0:2] { h q[i]; x q[i]; }" to h 0; x 0; h 1; x 1, each
\* followed by the measurements of the statement after it.
EveryStatementOfALineResolved ==
    (TablesBuilt /\ pc = "simulate") =>
        /\ prog = TwoGatesOnOneLine =>
              circuit.data = << GateOp("h", << 0 >>), GateOp("cx", << 0, 1 >>),
                                MeasureOp(0, 0), MeasureOp(1, 1) >>
        /\ prog = LoopBodyOnOneLine =>
              circuit.data = << GateOp("h", << 0 >>), GateOp("x", << 0 >>),
                                GateOp("h", << 1 >>), GateOp("x", << 1 >>),
                                MeasureOp(0, 0), MeasureOp(1, 1) >>

(***************************************************************************)
(* Indices of the operations                                               *)
(***************************************************************************)
\* C20: at every moment of a compilation, and so in every circuit it
\* returns, each qubit index of each operation is below the sum of all
\* declared qubit sizes and each bit index of each measurement is below the
\* sum of all declared bit sizes, which are the sizes the circuit was
\* allocated with; registers declared twice make no exception.
IndicesInRange ==
    TablesBuilt =>
        /\ circuit.num_qubits = SizeSum(prog.decls, "qubit", Len(prog.decls))
        /\ circuit.num_clbits = SizeSum(prog.decls, "bit", Len(prog.decls))
        /\ \A i \in 1..Len(circuit.data) :
              /\ \A k \in 1..Len(circuit.data[i].qubits) :
                    circuit.data[i].qubits[k] \in 0..(circuit.num_qubits - 1)
              /\ \A k \in 1..Len(circuit.data[i].clbits) :
                    circuit.data[i].clbits[k] \in 0..(circuit.num_clbits - 1)

\* A circuit returned for a source that declares q twice (sizes 2 and 1):
\* the gate and the measurement on q[0] use qubit 2, the last of three.
RedeclaredRegisterCompiled ==
    /\ prog.decls = << Decl("qubit", 2, "q"), Decl("qubit", 1, "q"), Decl("bit", 1, "c") >>
    /\ TablesBuilt
    /\ pc = "simulate"
    /\ circuit.num_qubits = 3
    /\ circuit.data = << GateOp("h", << 2 >>), MeasureOp(2, 0) >>

(***************************************************************************)
(* validator.py: validate_qasm.                                            *)
(***************************************************************************)
\* What visit_node knows and whether it has raised.
Visit(qubits, bits, measured, raised) ==
    [declared_qubits |-> qubits, declared_bits |-> bits,
     has_measurements |-> measured, raised |-> raised]

\* for arg in node.qubits: an IndexedIdentifier whose name is not in
\* declared_qubits raises (validator.py 51-58); the same test on the
\* argument of a measurement (61-68).
UndeclaredArg(args, declared) ==
    \E k \in 1..Len(args) : args[k].indexed /\ args[k].name \notin declared

\* visit_node(node) for one statement, from the state v (validator.py
\* 29-82).  The statements of a loop's block are visited in order; the
\* first raise ends the visit.
RECURSIVE visit_node(_, _)
RECURSIVE visit_block(_, _, _)
visit_block(block, k, v) ==
    IF k > Len(block) \/ v.raised # "" THEN v
    ELSE visit_block(block, k + 1, visit_node(block[k], v))

visit_node(node, v) ==
    IF node.type = "QuantumDeclaration"
    THEN [v EXCEPT !.declared_qubits = @ \cup Range(node.names)]
    ELSE IF node.type = "ClassicalDeclaration"
    THEN [v EXCEPT !.declared_bits = @ \cup Range(node.names)]
    ELSE IF node.type = "QuantumGate"
    THEN IF UndeclaredArg(node.args, v.declared_qubits)
         THEN [v EXCEPT !.raised = "Qubit used before declaration"]
         ELSE v
    ELSE IF node.type = "QuantumMeasurementStatement"
    THEN IF UndeclaredArg(node.args, v.declared_qubits)
         THEN [v EXCEPT !.has_measurements = TRUE,
                        !.raised = "Qubit used in measurement before declaration"]
         ELSE [v EXCEPT !.has_measurements = TRUE]
    ELSE IF node.type = "ForInLoop"
    THEN visit_block(node.block, 1, v)
    ELSE v

compile_vars == << prog, invocation, QASM3_PARSER_AVAILABLE, qasm_code, pc, entry, shots,
                   build_vars, circuit, qasm2_code, path, primary_exception, calls, result >>

\* validate_qasm(ast_node) is called: the sets are empty (validator.py 24-27)
\* and visit_node starts on the Program (99-100, 32-35).
CallValidateQasm ==
    /\ statement_no = 0
    /\ validation = "none"
    /\ declared_qubits' = {}
    /\ declared_bits' = {}
    /\ has_measurements' = FALSE
    /\ statement_no' = 1
    /\ UNCHANGED << compile_vars, ast_node, validation >>

\* One turn of "for statement in node.statements" (validator.py 34-35); a
\* CompilationError leaves validate_qasm (101-102).
VisitStatement ==
    /\ validation = "none"
    /\ statement_no \in 1..Len(ast_node.statements)
    /\ LET v == visit_node(ast_node.statements[statement_no],
                           Visit(declared_qubits, declared_bits, has_measurements, ""))
       IN  /\ declared_qubits' = v.declared_qubits
           /\ declared_bits' = v.declared_bits
           /\ has_measurements' = v.has_measurements
           /\ IF v.raised # ""
              THEN validation' = v.raised /\ UNCHANGED statement_no
              ELSE statement_no' = statement_no + 1 /\ UNCHANGED validation
    /\ UNCHANGED << compile_vars, ast_node >>

\* The visit is over and nothing is raised, has_measurements or not
\* (validator.py 107-108).
ValidateReturn ==
    /\ validation = "none"
    /\ statement_no > Len(ast_node.statements)
    /\ validation' = "passed"
    /\ UNCHANGED << compile_vars, ast_node, declared_qubits, declared_bits,
                    has_measurements, statement_no >>

\* A syntax tree from the parser, and no call of the compiler under way.
InitValidator ==
    /\ prog = Text(Q2C2, "h q[0];\nmeasure q -> c;")
    /\ invocation = 1
    /\ qasm_code = Render(prog)
    /\ QASM3_PARSER_AVAILABLE = TRUE
    /\ pc = "idle"
    /\ entry = "none"
    /\ shots = 0
    /\ qubit_registers = EmptyTable
    /\ bit_registers = EmptyTable
    /\ total_qubits = 0
    /\ total_bits = 0
    /\ expanded_code = ""
    /\ iteration = 0
    /\ lines = << >>
    /\ line_no = 0
    /\ circuit = QuantumCircuit(0, 0)
    /\ qasm2_code = ""
    /\ path = "none"
    /\ primary_exception = ""
    /\ calls = << >>
    /\ result = NoResult
    /\ ast_node \in Trees
    /\ declared_qubits = {}
    /\ declared_bits = {}
    /\ has_measurements = FALSE
    /\ statement_no = 0
    /\ validation = "none"

NextValidator ==
    \/ CallValidateQasm
    \/ VisitStatement
    \/ ValidateReturn

SpecValidator == InitValidator /\ [][NextValidator]_vars

(***************************************************************************)
(* One call after another                                                  *)
(***************************************************************************)
\* build_circuit_from_qasm3 as a function of its argument alone: the
\* circuit, or the code of the error it raises (simulator.py 152-405).
build_circuit_from_qasm3(code, lenient) ==
    LET qt == QubitTable(code)
        bt == BitTable(code)
        r  == ResolveLines(Split(Expand(code), "\n"), 1, qt.table, bt.table, lenient, << >>)
    IN  IF r.kind = "raise" THEN r
        ELSE [kind |-> "circuit", code |-> "",
              ops |-> [QuantumCircuit(qt.total, bt.total) EXCEPT !.data = r.ops]]

\* What simulate(c, n) may hand back to simulate_from_qasm_string on its
\* structural path (simulator.py 99-150, 424-435).
simulate(c, n) ==
    IF ~(c.num_clbits > 0) \/ Len(c.data) = 0
    THEN {Error("SimulationError", "Circuit has no measurements", "Circuit has no measurements")}
    ELSE IF ~HasMeasure(c)
    THEN {Error("SimulationError", "Circuit has no measurement operations",
                "Circuit has no measurement operations")}
    ELSE {Ok("counts", c, n),
          Error("SimulationError", "Simulation failed", "transpile"),
          Error("SimulationError", "Simulation failed", "run"),
          Error("SimulationError", "Simulation completed but returned no counts",
                "Simulation completed but returned no counts")}

\* What a call of simulate_from_qasm_string(code, n) that stays on the
\* structural path may answer.
Outcomes(code, n) ==
    UNION { LET b == build_circuit_from_qasm3(code, lenient)
            IN  IF b.kind = "raise" THEN {Error("SimulationError", b.code, b.code)}
                ELSE simulate(b.ops, n) : lenient \in BOOLEAN }

\* C15: no step of any call changes QASM3_PARSER_AVAILABLE, and in a call
\* that follows other calls, just as in the first, the circuit handed to
\* simulate and the answer of the call are those the source text of this
\* call alone determines (with the shots and what the engine does); a call
\* of compile_and_simulate without the parser always gets the same error.
StatelessAcrossInvocations ==
    /\ [][QASM3_PARSER_AVAILABLE' = QASM3_PARSER_AVAILABLE]_vars
    /\ []((entry = "simulate_from_qasm_string" /\ path = "primary" /\ pc = "simulate")
            => \E lenient \in BOOLEAN :
                  LET b == build_circuit_from_qasm3(qasm_code, lenient)
                  IN  b.kind = "circuit" /\ circuit = b.ops)
    /\ []((entry = "simulate_from_qasm_string" /\ path = "primary" /\ pc = "done")
            => result \in Outcomes(qasm_code, shots))
    /\ []((entry = "compile_and_simulate" /\ pc = "done" /\ ~QASM3_PARSER_AVAILABLE)
            => result = Error("CompilationError", "OpenQASM 3 parser not available",
                              "OpenQASM 3 parser not available"))

\* The second call has compiled a source with one register q of size 3
\* after a call on another source has ended.
SecondInvocationCompiled ==
    /\ invocation = 2
    /\ entry = "simulate_from_qasm_string"
    /\ path = "primary"
    /\ pc = "simulate"
    /\ prog.decls = Q3C3
    /\ total_qubits = 3
    /\ Len(circuit.data) > 3

(***************************************************************************)
(* Single-index measurement                                                *)
(***************************************************************************)
MeasureIndexLine(R, i, C, j) ==
    "measure " \o R \o "[" \o StrOf(i) \o "] -> " \o C \o "[" \o StrOf(j) \o "];"

\* C21: when the resolver reads "measure R[i] -> C[j];" with R a declared
\* qubit register and C a declared bit register, that step ends the
\* compilation with a range error if i >= size(R) or j >= size(C), and
\* otherwise adds exactly the measurement of qubit offset(R)+i into bit
\* offset(C)+j and goes on to the next line.
SingleIndexMeasureResolved ==
    [][\A R \in DeclNames("qubit"), C \in DeclNames("bit"), i \in 0..3, j \in 0..3 :
          AtStatement(MeasureIndexLine(R, i, C, j)) =>
              IF i >= SizeOf("qubit", R) \/ j >= SizeOf("bit", C)
              THEN /\ pc' = "done"
                   /\ result'.kind = "error"
                   /\ result'.code \in {"Qubit index out of range", "Bit index out of range"}
              ELSE /\ circuit'.data = circuit.data
                                        \o << MeasureOp(OffsetOf("qubit", R) + i,
                                                        OffsetOf("bit", C) + j) >>
                   /\ line_no' = line_no + 1
                   /\ pc' = "resolve"]_vars

(***************************************************************************)
(* The form of gate arguments                                              *)
(***************************************************************************)
\* arg is name[intLiteral] and nothing else.
IsIndexedReference(arg) ==
    \E k \in 2..(Len(arg) - 2) :
        /\ \A p \in 1..(k - 1) : Ch(arg, p) \in WordChars
        /\ Ch(arg, k) = "["
        /\ \A p \in (k + 1)..(Len(arg) - 1) : Ch(arg, p) \in DigitChars
        /\ Ch(arg, Len(arg)) = "]"

\* Gate statements and the arguments written in them.
GateStatements ==
    { [text |-> "h q[0];",        args |-> << "q[0]" >>],
      [text |-> "cx q[0], q[1];", args |-> << "q[0]", "q[1]" >>],
      [text |-> "h q[i];",        args |-> << "q[i]" >>],
      [text |-> "h q[1]x;",       args |-> << "q[1]x" >>],
      [text |-> "h q[0] q[1];",   args |-> << "q[0] q[1]" >>] }

\* C22: when the resolver reads a gate statement one of whose arguments is
\* not exactly name[intLiteral], that step ends the compilation with the
\* error "Unable to parse gate argument" and adds no operation.
InexactArgumentRaises ==
    [][\A st \in GateStatements :
          (/\ AtStatement(st.text)
           /\ \E k \in 1..Len(st.args) : ~IsIndexedReference(st.args[k])) =>
              /\ pc' = "done"
              /\ result'.kind = "error"
              /\ result'.code = "Unable to parse gate argument"
              /\ circuit' = circuit]_vars

(***************************************************************************)
(* Gate names and arities                                                  *)
(***************************************************************************)
\* The gates of the language and the number of qubits each acts on.
Arity ==
    [g \in {"h", "x", "y", "z", "s", "sdg", "t", "tdg"} |-> 1]
    @@ [g \in {"cx", "cy", "cz", "ch", "swap"} |-> 2]
    @@ [g \in {"ccx", "cswap"} |-> 3]

\* Gate calls, the name called and the number of arguments written.
GateCalls ==
    { [text |-> "h q[0];",                     name |-> "h",   n |-> 1],
      [text |-> "cx q[0], q[1];",              name |-> "cx",  n |-> 2],
      [text |-> "foo q[1];",                   name |-> "foo", n |-> 1],
      [text |-> "cx q[0];",                    name |-> "cx",  n |-> 1],
      [text |-> "h q[0], q[1];",               name |-> "h",   n |-> 2],
      [text |-> "cx q[0], q[1], q[0];",        name |-> "cx",  n |-> 3],
      [text |-> "ccx q[0], q[1], q[2], q[0];", name |-> "ccx", n |-> 4] }

\* C23: every gate operation of the circuit has a name of the fixed set
\* and as many qubits as that gate's arity; and when the resolver reads a
\* call of an unknown gate, or of a known gate with another number of
\* arguments than its arity, that step ends the compilation with an error.
GateNameAndArityEnforced ==
    /\ [](TablesBuilt =>
            \A i \in 1..Len(circuit.data) :
                circuit.data[i].name # "measure" =>
                    /\ circuit.data[i].name \in DOMAIN Arity
                    /\ Len(circuit.data[i].qubits) = Arity[circuit.data[i].name])
    /\ [][\A call \in GateCalls :
            (/\ AtStatement(call.text)
             /\ (call.name \notin DOMAIN Arity \/ call.n # Arity[call.name])) =>
                /\ pc' = "done"
                /\ result'.kind = "error"
                /\ result'.code \in {"Unsupported gate", "Error applying gate"}]_vars

(***************************************************************************)
(* Registers declared twice                                                *)
(***************************************************************************)
\* Declaration j is followed by a declaration of the same kind and name.
Redeclared(j) ==
    \E k \in (j + 1)..Len(prog.decls) :
        /\ prog.decls[k].kind = prog.decls[j].kind
        /\ prog.decls[k].name = prog.decls[j].name

\* The offsets declaration j was given.
OffsetsOfDecl(j) ==
    LET start == SizeSum(prog.decls, prog.decls[j].kind, j - 1)
    IN  start..(start + prog.decls[j].size - 1)

\* The offsets of a kind that belonged to declarations declared again.
Orphaned(kind) ==
    UNION {OffsetsOfDecl(j) : j \in {i \in 1..Len(prog.decls) :
                                        prog.decls[i].kind = kind /\ Redeclared(i)}}

\* The offsets the entry e = (offset, size) of a table addresses.
Addressed(e) == e[1]..(e[1] + e[2] - 1)

\* C24: for a name declared more than once with one kind, the table entry
\* is that of the last declaration (offset = the sizes of that kind
\* declared before it, size = its size), the totals count every
\* declaration, no entry of the table addresses an offset of an earlier
\* declaration of the name, and no operation of the circuit uses one.
RedeclarationOrphansEarlierRange ==
    TablesBuilt =>
        /\ total_qubits = SizeSum(prog.decls, "qubit", Len(prog.decls))
        /\ total_bits = SizeSum(prog.decls, "bit", Len(prog.decls))
        /\ \A j \in 1..Len(prog.decls) :
              Redeclared(j) =>
                  LET d == prog.decls[j]
                      k == LastDecl(d.kind, d.name)
                  IN  /\ k > j
                      /\ TableOf(d.kind)[d.name]
                            = << SizeSum(prog.decls, d.kind, k - 1), prog.decls[k].size >>
        /\ \A kind \in {"qubit", "bit"} :
              \A r \in DOMAIN TableOf(kind) :
                  Addressed(TableOf(kind)[r]) \cap Orphaned(kind) = {}
        /\ \A i \in 1..Len(circuit.data) :
              /\ Range(circuit.data[i].qubits) \cap Orphaned("qubit") = {}
              /\ Range(circuit.data[i].clbits) \cap Orphaned("bit") = {}

\* The tables of a source that declares q with size 2 and again with size
\* 1: q stands at offset 2, the offsets 0 and 1 belong to no register, and
\* the gate on q[0] has been resolved to qubit 2.
RedeclaredTableInUse ==
    /\ TablesBuilt
    /\ prog.decls = << Decl("qubit", 2, "q"), Decl("qubit", 1, "q"), Decl("bit", 1, "c") >>
    /\ qubit_registers = ("q" :> << 2, 1 >>)
    /\ total_qubits = 3
    /\ Orphaned("qubit") = {0, 1}
    /\ pc = "resolve"
    /\ circuit.data = << GateOp("h", << 2 >>) >>

(***************************************************************************)
(* Sizes of the table entries                                              *)
(***************************************************************************)
\* C25: once the register tables are built, every entry of the qubit table
\* and of the bit table has a size greater than 0, so a declaration with
\* size 0 has no entry; a table holds one entry for a name.
TableEntriesHavePositiveSize ==
    TablesBuilt =>
        \A kind \in {"qubit", "bit"} :
            /\ \A r \in DOMAIN TableOf(kind) : TableOf(kind)[r][2] > 0
            /\ \A k \in 1..Len(prog.decls) :
                  (prog.decls[k].kind = kind /\ prog.decls[k].size = 0
                     /\ LastDecl(kind, prog.decls[k].name) = k)
                  => prog.decls[k].name \notin DOMAIN TableOf(kind)

(***************************************************************************)
(* The converter and the resolver on whole-register measurements           *)
(***************************************************************************)
\* C26: the legacy text made from declarations followed by
\* "measure q -> c;" holds the statements "measure q[i] -> c[i];" for
\* exactly the i below size(q) when q is a declared qubit register and c a
\* declared bit register of the same size, which is when the resolver
\* emits measurements; and it holds no indexed measurement of q when the
\* resolver reports a size mismatch or an unknown register.
ConverterMeasuresAsResolver ==
    (pc = "load" /\ prog \in DeclPrograms) =>
        IF /\ Declared("qubit", "q")
           /\ Declared("bit", "c")
           /\ SizeOf("qubit", "q") = SizeOf("bit", "c")
        THEN \A i \in 0..3 :
                Contains(qasm2_code, MeasureIndexLine("q", i, "c", i))
                    <=> i < SizeOf("qubit", "q")
        ELSE ~Contains(qasm2_code, "measure q[")

(***************************************************************************)
(* The validator                                                           *)
(***************************************************************************)
\* The arguments of the gates and measurements of a list of statements,
\* each with the qubit names declared before it in program order.
RECURSIVE References(_, _, _)
References(statements, k, declared) ==
    IF k > Len(statements) THEN {}
    ELSE LET s == statements[k]
         IN  IF s.type = "QuantumDeclaration"
             THEN References(statements, k + 1, declared \cup Range(s.names))
             ELSE IF s.type = "ForInLoop"
             THEN References(s.block, 1, declared) \cup References(statements, k + 1, declared)
             ELSE {[name |-> s.args[i].name, declared |-> declared] : i \in 1..Len(s.args)}
                  \cup References(statements, k + 1, declared)

\* Some gate or measurement of the tree names a qubit register that no
\* earlier statement declares.
UsedBeforeDeclaration(tree) ==
    \E ref \in References(tree.statements, 1, {}) : ref.name \notin ref.declared

\* C27: validate_qasm ends with a CompilationError if some gate or
\* measurement of the tree names a qubit register not declared before it
\* in program order, and otherwise ends without raising, whether or not
\* the tree holds a measurement.
ValidatorRaisesOnUndeclared ==
    validation # "none" =>
        IF UsedBeforeDeclaration(ast_node)
        THEN validation \in {"Qubit used before declaration",
                             "Qubit used in measurement before declaration"}
        ELSE validation = "passed"

(***************************************************************************)
(* Lines taken for declarations                                            *)
(***************************************************************************)
\* C28: when the line the resolver reads contains "bit[" (as every line
\* with "qubit[" does), that step adds no operation, raises nothing and
\* goes on to the next line, whatever else the line holds; so the source
\* whose statements all share the line of the declarations compiles to a
\* circuit without operations.
LinesWithBitBracketDropped ==
    /\ [][(/\ pc = "resolve"
           /\ line_no <= Len(lines)
           /\ Contains(lines[line_no], "bit[")) =>
              /\ circuit' = circuit
              /\ result' = result
              /\ pc' = "resolve"
              /\ line_no' = line_no + 1]_vars
    /\ []((qasm_code = BellSource /\ TablesBuilt /\ pc = "simulate") => circuit.data = << >>)

\* The resolver has passed over the gate statement "h mybit[0];", which
\* declares nothing, and kept only the gate of the line before it.
GateOnMybitDropped ==
    /\ pc = "resolve"
    /\ line_no \in 2..(Len(lines) + 1)
    /\ lines[line_no - 1] = "h mybit[0];"
    /\ circuit.data = << GateOp("h", << 0 >>) >>
    /\ result = NoResult

(***************************************************************************)
(* Nested loops                                                            *)
(***************************************************************************)
\* f(lo), ..., f(hi - 1) as a sequence of hi - lo elements.
Upto(lo, hi, f(_)) == [k \in 1..(hi - lo) |-> f(lo + k - 1)]

\* The inner body with i and j put in, and what one turn of the outer loop
\* becomes: the copies of the inner body for j = c, ..., d - 1.
InnerBody(i, j) == "\n  cx q[" \o StrOf(i) \o "], r[" \o StrOf(j) \o "];\n"

OuterCopy(i, c, d) ==
    LET copy(j) == InnerBody(i, j)
    IN  "\n" \o Join(Upto(c, d, copy), "\n") \o "\n"

NestedExpansion(a, b, c, d) ==
    LET turn(i) == OuterCopy(i, c, d)
    IN  RenderDecls(NestedDecls, "\n") \o Join(Upto(a, b, turn), "\n") \o "\nmeasure r -> c;"

\* The gates of the pairs (i, j), i outer and j inner, in lexicographic
\* order; r stands at offset 10.
RECURSIVE PairGates(_, _, _, _)
PairGates(i, b, c, d) ==
    LET gate(j) == GateOp("cx", << i, 10 + j >>)
    IN  IF i >= b THEN << >> ELSE Upto(c, d, gate) \o PairGates(i + 1, b, c, d)

\* The loop headers left in a text.
LoopHeaders(t) == Cardinality({p \in 1..Len(t) : Lit(t, p, "for int")})

\* C29: for a loop over i in [a:b] around a loop over j in [c:d] with
\* b - a <= 9, the first pass expands the outer loop into b - a inner
\* loops, every further pass expands one of them, so that 1 + (b - a)
\* passes are used; the text then holds one copy of the inner body for each
\* pair (i, j), a <= i < b, c <= j < d, in lexicographic order with both
\* variables replaced, and the circuit holds their gates in that order.
NestedLoopsExpandToPairs ==
    \A a \in 0..1, n \in NestedSpans, cd \in InnerRanges :
        (prog = NestedProgram(a, a + n, cd[1], cd[2]) /\ TablesBuilt) =>
            /\ pc = "expand_loops" =>
                  /\ iteration <= 1 + n
                  /\ LoopHeaders(expanded_code) = IF iteration = 0 THEN 2 ELSE n - (iteration - 1)
            /\ pc \in {"remove_conditionals", "resolve", "simulate"} =>
                  expanded_code = NestedExpansion(a, a + n, cd[1], cd[2])
            /\ pc = "simulate" =>
                  circuit.data = PairGates(a, a + n, cd[1], cd[2]) \o MeasureAll(10, 0, 3)

\* Nine turns of the outer loop and two of the inner one, compiled with
\* the last of the ten passes to eighteen gates, from (1, 1) to (9, 2).
NestedLoopsCompiled ==
    /\ prog = NestedProgram(1, 10, 1, 3)
    /\ TablesBuilt
    /\ pc = "simulate"
    /\ Len(circuit.data) = 18 + 3
    /\ circuit.data[1] = GateOp("cx", << 1, 11 >>)
    /\ circuit.data[2] = GateOp("cx", << 1, 12 >>)
    /\ circuit.data[18] = GateOp("cx", << 9, 12 >>)

====
